---- MODULE Spec2Model ----
(***************************************************************************)
(* Agent-state logger of mayhorizon/kalami: the compressor (lib/compressor), *)
(* the event logger (lib/logger), the storage gateway (db/init_db), the     *)
(* session tracker (lib/session_tracker) and the two hook entry points.     *)
(*                                                                         *)
(* Representation of Python / SQLite values.                               *)
(*  - A text (str) is a sequence of symbols.  A symbol is a TLA+ string    *)
(*    standing for one character or for a fixed run of ASCII characters    *)
(*    ("null" is the four characters n,u,l,l; "X" is a run of 10240 'x').  *)
(*  - A byte string is a sequence of byte units.  An ASCII symbol encodes  *)
(*    to itself; "xC3","xA9","xFF",... are single bytes.                   *)
(*  - A payload value is a tagged record [t |-> kind, v |-> content].      *)
(***************************************************************************)
EXTENDS Integers, Sequences, FiniteSets, TLC

VARIABLES
    sessions,        \* table sessions: sequence of rows, in rowid order
    agents,          \* table agents
    tool_calls,      \* table tool_calls
    modifications,   \* table modifications
    state_snapshots, \* table state_snapshots
    ctx,             \* session_tracker._current_context of the calling process
    lastOp,          \* the last logger / hook operation, its arguments and outcome
    cIn,             \* compressor under test: the payload and threshold drawn
    cOut,            \* compressor under test: the last function applied and its result
    env,             \* the environment: variables, session markers, task output files
    given,           \* history: the payloads passed for each tool_calls row, by id
    resolved,        \* history: the first id get_current_session() returned, if any
    db,              \* the store file as the concurrent processes see it
    procs            \* the concurrent processes of log_session_start

storeVars == <<sessions, agents, tool_calls, modifications, state_snapshots>>
vars == <<sessions, agents, tool_calls, modifications, state_snapshots, ctx, lastOp,
          env, given, resolved, cIn, cOut, db, procs>>

----------------------------------------------------------------------------
(* Bounds of the model *)

MaxTextLen == 2      \* symbols in a text payload
MaxBytesLen == 2     \* byte units in a bytes payload
MaxItems == 2        \* items in a list payload
MaxThreshold == 5    \* small thresholds tried besides the default
MaxCalls == 2        \* rows of tool_calls
MaxAux == 1          \* rows of modifications and of state_snapshots together
MaxStack == 2        \* agents nested on the tracker's stack

----------------------------------------------------------------------------
(* Python values *)

\* None / NULL in a text-typed place, and in an integer-typed place
NullStr == "NULL"
NullInt == -1

None == [t |-> "null"]
PyBool(b) == [t |-> "bool", v |-> b]
PyInt(n) == [t |-> "int", v |-> n]
PyStr(s) == [t |-> "str", v |-> s]
PyBytes(b) == [t |-> "bytes", v |-> b]
PyList(xs) == [t |-> "list", v |-> xs]
PyDict(kvs) == [t |-> "dict", v |-> kvs]
Raised(e) == [t |-> "raise", v |-> e]

\* Python truthiness (`if x:`)
Truthy(x) ==
    CASE x.t = "null" -> FALSE
      [] x.t = "bool" -> x.v
      [] x.t = "int" -> x.v # 0
      [] x.t \in {"str", "bytes", "list", "dict"} -> Len(x.v) > 0
      [] OTHER -> TRUE

\* compressor.DEFAULT_COMPRESSION_THRESHOLD
DEFAULT_COMPRESSION_THRESHOLD == 10240

\* bytes occupied by one symbol / byte unit ("X" is a run of 10240 'x')
UnitWidth(u) ==
    CASE u = "X" -> DEFAULT_COMPRESSION_THRESHOLD
      [] u \in {"null", "true", "None", "True"} -> 4
      [] u \in {"false", "False"} -> 5
      [] u \in {"\\u00e9", "\\ufffd"} -> 6
      [] u = "file_path" -> 9
      [] u = "content" -> 7
      [] u \in {"old_string", "new_string"} -> 10
      [] u \in {"old", "new"} -> 3
      [] u = "[multiple edits]" -> 16
      [] OTHER -> 1

RECURSIVE ByteLen(_)
\* len(b) of a byte string
ByteLen(b) == IF b = <<>> THEN 0 ELSE UnitWidth(Head(b)) + ByteLen(Tail(b))

RECURSIVE Utf8Encode(_)
\* str.encode('utf-8')
Utf8Encode(s) ==
    IF s = <<>> THEN <<>>
    ELSE (CASE Head(s) = "e'" -> <<"xC3", "xA9">>
            [] Head(s) = "U+FFFD" -> <<"xEF", "xBF", "xBD">>
            [] OTHER -> <<Head(s)>>) \o Utf8Encode(Tail(s))

RawBytes == {"xC3", "xA9", "xEF", "xBF", "xBD", "xFF"}

RECURSIVE Utf8Valid(_)
\* whether bytes.decode('utf-8') succeeds
Utf8Valid(b) ==
    IF b = <<>> THEN TRUE
    ELSE IF Len(b) >= 2 /\ SubSeq(b, 1, 2) = <<"xC3", "xA9">> THEN Utf8Valid(SubSeq(b, 3, Len(b)))
    ELSE IF Len(b) >= 3 /\ SubSeq(b, 1, 3) = <<"xEF", "xBF", "xBD">>
         THEN Utf8Valid(SubSeq(b, 4, Len(b)))
    ELSE IF Head(b) \in RawBytes THEN FALSE
    ELSE Utf8Valid(Tail(b))

RECURSIVE Utf8DecodeReplace(_)
\* bytes.decode('utf-8', errors='replace'); equals the strict decoding on valid input
Utf8DecodeReplace(b) ==
    IF b = <<>> THEN <<>>
    ELSE IF Len(b) >= 2 /\ SubSeq(b, 1, 2) = <<"xC3", "xA9">>
         THEN <<"e'">> \o Utf8DecodeReplace(SubSeq(b, 3, Len(b)))
    ELSE IF Len(b) >= 3 /\ SubSeq(b, 1, 3) = <<"xEF", "xBF", "xBD">>
         THEN <<"U+FFFD">> \o Utf8DecodeReplace(SubSeq(b, 4, Len(b)))
    ELSE IF Len(b) >= 2 /\ SubSeq(b, 1, 2) = <<"xEF", "xBF">>
         THEN <<"U+FFFD">> \o Utf8DecodeReplace(SubSeq(b, 3, Len(b)))
    ELSE IF Head(b) \in RawBytes THEN <<"U+FFFD">> \o Utf8DecodeReplace(Tail(b))
    ELSE <<Head(b)>> \o Utf8DecodeReplace(Tail(b))

DigitSyms == <<"0", "1", "2", "3", "4", "5", "6", "7", "8", "9">>

RECURSIVE Digits(_)
\* decimal digits of a natural number
Digits(n) == IF n < 10 THEN <<DigitSyms[n + 1]>> ELSE Digits(n \div 10) \o <<DigitSyms[(n % 10) + 1]>>

\* str(n) and json.dumps(n) of an int
IntText(n) == IF n < 0 THEN <<"-">> \o Digits(-n) ELSE Digits(n)

RECURSIVE JsonEscape(_)
\* json.dumps of the characters of a string (ensure_ascii=True)
JsonEscape(s) ==
    IF s = <<>> THEN <<>>
    ELSE (CASE Head(s) = "e'" -> <<"\\u00e9">>
            [] Head(s) = "U+FFFD" -> <<"\\ufffd">>
            [] OTHER -> <<Head(s)>>) \o JsonEscape(Tail(s))

RECURSIVE JsonDumps(_, _, _)
RECURSIVE JsonItems(_, _, _)
RECURSIVE JsonPairs(_, _, _)
\* json.dumps(x, separators=(isep, ksep)); bytes are not JSON serializable
JsonDumps(x, isep, ksep) ==
    CASE x.t = "null" -> <<"null">>
      [] x.t = "bool" -> IF x.v THEN <<"true">> ELSE <<"false">>
      [] x.t = "int" -> IntText(x.v)
      [] x.t = "str" -> <<"\"">> \o JsonEscape(x.v) \o <<"\"">>
      [] x.t = "list" -> <<"[">> \o JsonItems(x.v, isep, ksep) \o <<"]">>
      [] x.t = "dict" -> <<"{">> \o JsonPairs(x.v, isep, ksep) \o <<"}">>
JsonItems(xs, isep, ksep) ==
    IF xs = <<>> THEN <<>>
    ELSE JsonDumps(Head(xs), isep, ksep)
         \o (IF Len(xs) > 1 THEN isep ELSE <<>>) \o JsonItems(Tail(xs), isep, ksep)
JsonPairs(kvs, isep, ksep) ==
    IF kvs = <<>> THEN <<>>
    ELSE <<"\"">> \o JsonEscape(Head(kvs).k) \o <<"\"">> \o ksep
         \o JsonDumps(Head(kvs).x, isep, ksep)
         \o (IF Len(kvs) > 1 THEN isep ELSE <<>>) \o JsonPairs(Tail(kvs), isep, ksep)

\* json.dumps(x): the default separators ', ' and ': '
JsonDumpsDefault(x) == JsonDumps(x, <<",", " ">>, <<":", " ">>)
\* json.dumps(x, separators=(',', ':'))
JsonDumpsCompact(x) == JsonDumps(x, <<",">>, <<":">>)

\* str(x) of a scalar
PyStrOf(x) ==
    CASE x.t = "null" -> <<"None">>
      [] x.t = "bool" -> IF x.v THEN <<"True">> ELSE <<"False">>
      [] x.t = "int" -> IntText(x.v)

----------------------------------------------------------------------------
(* The payloads drawn *)

TextAlphabet == {"a", "1", "e'", "X"}
BytesAlphabet == {"a", "xFF"}

SeqsUpTo(S, n) == UNION {[1..k -> S] : k \in 0..n}

Texts == SeqsUpTo(TextAlphabet, MaxTextLen)
ItemValues == {PyStr(<<"a">>), PyStr(<<"e'">>), PyStr(<<"X">>), PyInt(1)}
ListValues == {PyList(xs) : xs \in SeqsUpTo(ItemValues, MaxItems)}
DictKeys == {<<"a">>, <<"1">>}
DictPairs == {[k |-> key, x |-> i] : key \in DictKeys, i \in ItemValues}
\* dicts of at most two pairs, their keys distinct
DictValues ==
    {PyDict(kvs) : kvs \in {q \in SeqsUpTo(DictPairs, 2) : Len(q) = 2 => q[1].k # q[2].k}}
ScalarValues == {None, PyBool(TRUE), PyBool(FALSE), PyInt(1), PyInt(11)}
StrValues == {PyStr(s) : s \in Texts}
BytesValues == {PyBytes(b) : b \in SeqsUpTo(BytesAlphabet, MaxBytesLen)}

\* every JSON value a text of the model can denote
JsonUniverse ==
    ScalarValues \cup {PyInt(n) : n \in {111, 1111}} \cup StrValues \cup ListValues \cup DictValues

Payloads == ScalarValues \cup StrValues \cup BytesValues \cup ListValues \cup DictValues

\* json.loads(s): the value whose serialization s is, or JSONDecodeError
JsonLoads(s) ==
    LET hits == {x \in JsonUniverse : JsonDumpsCompact(x) = s \/ JsonDumpsDefault(x) = s}
    IN IF hits = {} THEN Raised("JSONDecodeError") ELSE CHOOSE x \in hits : TRUE

----------------------------------------------------------------------------
(* lib/compressor.py *)

\* gzip.compress(b, compresslevel=6): a lossless encoding, told apart by its header
GzipCompress(b) == <<"GZ">> \o b
GzipValid(b) == b # <<>> /\ Head(b) = "GZ"
\* gzip.decompress(b) of a valid blob
GzipDecompress(b) == Tail(b)

\* should_compress(data, threshold)
should_compress(data, threshold) ==
    IF data.t \in {"dict", "list"}
    THEN ByteLen(Utf8Encode(JsonDumpsDefault(data))) > threshold
    ELSE IF data.t = "str" THEN ByteLen(Utf8Encode(data.v)) > threshold
    ELSE IF data.t = "bytes" THEN ByteLen(data.v) > threshold
    ELSE ByteLen(Utf8Encode(PyStrOf(data))) > threshold

\* compress_if_large: the json_str of lines 45-56 (None for bytes)
CilJsonStr(data) ==
    IF data.t \in {"dict", "list"} THEN PyStr(JsonDumpsCompact(data))
    ELSE IF data.t = "str" THEN data
    ELSE IF data.t = "bytes" THEN None
    ELSE PyStr(JsonDumpsCompact(data))

\* compress_if_large: the data_bytes of lines 45-56
CilDataBytes(data) ==
    IF data.t = "bytes" THEN data.v ELSE Utf8Encode(CilJsonStr(data).v)

\* the comparison of line 59 with the tie compressed
CilExceedsInclusive(n, threshold) == n >= threshold

\* compress_if_large: `len(data_bytes) > threshold`
CilExceeds(n, threshold) == n > threshold

\* compress_if_large(data, threshold) -> (data_to_store, is_compressed)
compress_if_large(data, threshold) ==
    LET json_str == CilJsonStr(data)
        data_bytes == CilDataBytes(data)
    IN IF CilExceeds(ByteLen(data_bytes), threshold)
       THEN [data |-> PyBytes(GzipCompress(data_bytes)), is_compressed |-> TRUE]
       ELSE [data |-> IF Truthy(json_str) THEN json_str
                      ELSE PyStr(Utf8DecodeReplace(data_bytes)),
             is_compressed |-> FALSE]

\* compress_data: the data_bytes of lines 76-83
CdDataBytes(data) ==
    IF data.t \in {"dict", "list"} THEN Utf8Encode(JsonDumpsCompact(data))
    ELSE IF data.t = "str" THEN Utf8Encode(data.v)
    ELSE IF data.t = "bytes" THEN data.v
    ELSE Utf8Encode(PyStrOf(data))

\* compress_data(data) -> bytes
compress_data(data) == PyBytes(GzipCompress(CdDataBytes(data)))

\* decompress_data with the bytes decoded by errors='replace'
decompress_data_replace(compressed_blob) ==
    IF ~Truthy(compressed_blob) THEN None
    ELSE IF ~GzipValid(compressed_blob.v) THEN Raised("ValueError")
    ELSE PyStr(Utf8DecodeReplace(GzipDecompress(compressed_blob.v)))

\* decompress_data(compressed_blob) -> str, None, or ValueError raised
decompress_data(compressed_blob) ==
    IF ~Truthy(compressed_blob) THEN None
    ELSE IF ~GzipValid(compressed_blob.v) THEN Raised("ValueError")
    ELSE IF ~Utf8Valid(GzipDecompress(compressed_blob.v)) THEN Raised("ValueError")
    ELSE PyStr(Utf8DecodeReplace(GzipDecompress(compressed_blob.v)))

\* get_data_from_row: json.loads with the raw string on JSONDecodeError
LoadsOrRaw(s) == IF JsonLoads(s.v).t = "raise" THEN s ELSE JsonLoads(s.v)

\* get_data_from_row with the column chosen by the flag alone
get_data_from_row_by_flag(row, json_col, compressed_col, flag_col) ==
    LET is_compressed == IF flag_col \in DOMAIN row THEN row[flag_col] # 0 ELSE FALSE
        json_data == IF json_col \in DOMAIN row THEN row[json_col] ELSE None
        compressed_data == IF compressed_col \in DOMAIN row THEN row[compressed_col] ELSE None
    IN IF is_compressed
       THEN (IF ~Truthy(compressed_data) \/ decompress_data(compressed_data).t = "raise"
             THEN None
             ELSE LoadsOrRaw(decompress_data(compressed_data)))
       ELSE IF Truthy(json_data) THEN LoadsOrRaw(json_data)
       ELSE None

\* get_data_from_row(row, json_col, compressed_col, flag_col) of a sqlite3.Row
get_data_from_row(row, json_col, compressed_col, flag_col) ==
    LET is_compressed == IF flag_col \in DOMAIN row THEN row[flag_col] # 0 ELSE FALSE
        json_data == IF json_col \in DOMAIN row THEN row[json_col] ELSE None
        compressed_data == IF compressed_col \in DOMAIN row THEN row[compressed_col] ELSE None
    IN IF is_compressed /\ Truthy(compressed_data)
       THEN (IF decompress_data(compressed_data).t = "raise" THEN None
             ELSE LoadsOrRaw(decompress_data(compressed_data)))
       ELSE IF Truthy(json_data) THEN LoadsOrRaw(json_data)
       ELSE None

\* get_data_from_row: whether the outer except branch ran and printed
\* "Error extracting data from row: ..."
get_data_from_row_error(row, json_col, compressed_col, flag_col) ==
    LET is_compressed == IF flag_col \in DOMAIN row THEN row[flag_col] # 0 ELSE FALSE
        compressed_data == IF compressed_col \in DOMAIN row THEN row[compressed_col] ELSE None
    IN /\ is_compressed
       /\ Truthy(compressed_data)
       /\ decompress_data(compressed_data).t = "raise"

----------------------------------------------------------------------------
(* The compressor applied to drawn inputs *)

Thresholds == (0..MaxThreshold) \cup {DEFAULT_COMPRESSION_THRESHOLD}

CodecIdle == [op |-> "none", stored |-> None, is_compressed |-> FALSE, text |-> None]

CodecInit ==
    /\ cIn \in [data : Payloads, threshold : Thresholds]
    /\ cOut = CodecIdle

\* compress_if_large(data, threshold)
CodecCompressIfLarge ==
    /\ cOut.op = "none"
    /\ LET r == compress_if_large(cIn.data, cIn.threshold)
       IN cOut' = [op |-> "compress_if_large", stored |-> r.data,
                   is_compressed |-> r.is_compressed, text |-> None]
    /\ UNCHANGED cIn

\* compress_data(data)
CodecCompressData ==
    /\ cOut.op = "none"
    /\ cOut' = [op |-> "compress_data", stored |-> compress_data(cIn.data),
                is_compressed |-> TRUE, text |-> None]
    /\ UNCHANGED cIn

\* decompress_data(blob) of the blob just produced
CodecDecompress ==
    /\ cOut.op \in {"compress_if_large", "compress_data"}
    /\ cOut.is_compressed
    /\ cOut' = [op |-> "decompress_data", stored |-> cOut.stored,
                is_compressed |-> (cOut.op = "compress_if_large"),
                text |-> decompress_data(cOut.stored)]
    /\ UNCHANGED cIn

----------------------------------------------------------------------------
(* lib/session_tracker.py *)

\* _current_context at import
InitCtx == [session_id |-> NullStr, agent_id |-> NullStr, agent_stack |-> <<>>]

RECURSIVE LatestFile(_)
\* max(session_files, key=st_mtime): the first file of the greatest mtime
LatestFile(files) ==
    IF Len(files) = 1 THEN files[1]
    ELSE LET rest == LatestFile(Tail(files))
         IN IF rest.mtime > Head(files).mtime THEN rest ELSE Head(files)

\* truth value of a str or None: None and the empty string are false
StrTruthy(s) == s # NullStr /\ s # ""

\* get_current_session() with the session markers consulted before the environment
get_current_session_markers_first(c, e, gen) ==
    IF StrTruthy(c.session_id) THEN [id |-> c.session_id, ctx |-> c]
    ELSE IF e.session_files # <<>>
         THEN [id |-> LatestFile(e.session_files).id,
               ctx |-> [c EXCEPT !.session_id = LatestFile(e.session_files).id]]
    ELSE IF StrTruthy(e.CLAUDE_SESSION_ID)
         THEN [id |-> e.CLAUDE_SESSION_ID, ctx |-> [c EXCEPT !.session_id = e.CLAUDE_SESSION_ID]]
    ELSE [id |-> gen, ctx |-> [c EXCEPT !.session_id = gen]]

\* get_current_session(): [id, ctx]; gen is what generate_session_id() would return
get_current_session(c, e, gen) ==
    IF StrTruthy(c.session_id) THEN [id |-> c.session_id, ctx |-> c]
    ELSE IF StrTruthy(e.CLAUDE_SESSION_ID)
         THEN [id |-> e.CLAUDE_SESSION_ID, ctx |-> [c EXCEPT !.session_id = e.CLAUDE_SESSION_ID]]
    ELSE IF e.session_files # <<>>
         THEN [id |-> LatestFile(e.session_files).id,
               ctx |-> [c EXCEPT !.session_id = LatestFile(e.session_files).id]]
    ELSE [id |-> gen, ctx |-> [c EXCEPT !.session_id = gen]]

\* parse_agent_from_environment(): task_dirs are the */tasks directories with their
\* mtime, each with its *.output files as glob lists them.  The first directory with
\* output files, in the order of sorted(..., key=st_mtime, reverse=True), gives
\* task_files[0].stem.
parse_agent_from_environment(task_dirs) ==
    LET with_outputs == SelectSeq(task_dirs, LAMBDA d : d.files # <<>>)
    IN IF with_outputs = <<>> THEN NullStr
       ELSE LatestFile(with_outputs).files[1].stem

\* get_current_agent() with the stack consulted before the environment
get_current_agent_stack_first(c, e) ==
    IF c.agent_stack # <<>> THEN [id |-> c.agent_stack[Len(c.agent_stack)], ctx |-> c]
    ELSE IF StrTruthy(e.CLAUDE_AGENT_ID) THEN [id |-> e.CLAUDE_AGENT_ID, ctx |-> c]
    ELSE IF StrTruthy(c.agent_id) THEN [id |-> c.agent_id, ctx |-> c]
    ELSE [id |-> parse_agent_from_environment(e.task_dirs), ctx |-> c]

\* get_current_agent() caching whatever id it returns
get_current_agent_cache_all(c, e) ==
    LET id == IF StrTruthy(e.CLAUDE_AGENT_ID) THEN e.CLAUDE_AGENT_ID
              ELSE IF c.agent_stack # <<>> THEN c.agent_stack[Len(c.agent_stack)]
              ELSE IF StrTruthy(c.agent_id) THEN c.agent_id
              ELSE parse_agent_from_environment(e.task_dirs)
    IN [id |-> id, ctx |-> [c EXCEPT !.agent_id = id]]

\* get_current_agent(): [id, ctx]
get_current_agent(c, e) ==
    IF StrTruthy(e.CLAUDE_AGENT_ID) THEN [id |-> e.CLAUDE_AGENT_ID, ctx |-> c]
    ELSE IF c.agent_stack # <<>> THEN [id |-> c.agent_stack[Len(c.agent_stack)], ctx |-> c]
    ELSE IF StrTruthy(c.agent_id) THEN [id |-> c.agent_id, ctx |-> c]
    ELSE IF StrTruthy(parse_agent_from_environment(e.task_dirs))
         THEN [id |-> parse_agent_from_environment(e.task_dirs),
               ctx |-> [c EXCEPT !.agent_id = parse_agent_from_environment(e.task_dirs)]]
    ELSE [id |-> NullStr, ctx |-> c]

\* push_agent(agent_id)
push_agent(c, agent_id) ==
    [c EXCEPT !.agent_stack = Append(@, agent_id), !.agent_id = agent_id]

\* pop_agent() taking the oldest entry of the stack
pop_agent_fifo(c) ==
    IF c.agent_stack # <<>>
    THEN [id |-> Head(c.agent_stack),
          ctx |-> [c EXCEPT !.agent_stack = Tail(@),
                            !.agent_id = IF Tail(c.agent_stack) # <<>>
                                         THEN c.agent_stack[Len(c.agent_stack)]
                                         ELSE NullStr]]
    ELSE [id |-> NullStr, ctx |-> c]

\* pop_agent() leaving the cached agent id as it was
pop_agent_keep_current(c) ==
    IF c.agent_stack # <<>>
    THEN [id |-> c.agent_stack[Len(c.agent_stack)],
          ctx |-> [c EXCEPT !.agent_stack = SubSeq(@, 1, Len(@) - 1)]]
    ELSE [id |-> NullStr, ctx |-> c]

\* pop_agent(): [id, ctx]
pop_agent(c) ==
    IF c.agent_stack # <<>>
    THEN LET rest == SubSeq(c.agent_stack, 1, Len(c.agent_stack) - 1)
         IN [id |-> c.agent_stack[Len(c.agent_stack)],
             ctx |-> [c EXCEPT !.agent_stack = rest,
                               !.agent_id = IF rest # <<>> THEN rest[Len(rest)]
                                            ELSE NullStr]]
    ELSE [id |-> NullStr, ctx |-> c]

\* set_session(session_id)
set_session(c, session_id) == [c EXCEPT !.session_id = session_id]

\* set_agent(agent_id)
set_agent(c, agent_id) == [c EXCEPT !.agent_id = agent_id]

\* reset_context()
reset_context(c) == InitCtx

\* get_working_directory()
get_working_directory(e) == e.cwd

\* get_user_command(): the last entry of history.jsonl, None if there is none
get_user_command(e) == e.history

----------------------------------------------------------------------------
(* The store: db/schema.sql as the spec describes it, and the statements of
   lib/logger.py *)

\* sessions.session_id is the table's unique key
SessionKeyConflict(tbl, row) == \E i \in DOMAIN tbl : tbl[i].session_id = row.session_id

\* agents.agent_id is the table's unique key
AgentKeyConflict(tbl, row) == \E i \in DOMAIN tbl : tbl[i].agent_id = row.agent_id

\* the id a table assigns to the next inserted row (cursor.lastrowid)
NextRowId(tbl) == Len(tbl) + 1

\* INSERT INTO sessions without the conflict clause taking effect
InsertSessionAlways(tbl, row) == Append(tbl, row)

\* INSERT OR IGNORE INTO sessions (session_id, user_command, working_directory, metadata_json)
InsertOrIgnoreSession(tbl, row) == IF SessionKeyConflict(tbl, row) THEN tbl ELSE Append(tbl, row)

\* the row of the INSERT of log_session_start; ended_at takes the column's default
SessionRow(session_id, user_command, working_directory, metadata_json) ==
    [session_id |-> session_id, user_command |-> user_command,
     working_directory |-> working_directory, metadata_json |-> metadata_json,
     ended_at |-> NullInt]

\* a DELETE FROM sessions WHERE session_id = ? in the place of the UPDATE
DeleteSessionRow(tbl, session_id, now) ==
    SelectSeq(tbl, LAMBDA row : row.session_id # session_id)

\* the UPDATE of log_session_end with its WHERE clause lost
UpdateSessionEndAll(tbl, session_id, now) ==
    [i \in DOMAIN tbl |-> [tbl[i] EXCEPT !.ended_at = now]]

\* UPDATE sessions SET ended_at = CURRENT_TIMESTAMP WHERE session_id = ?
UpdateSessionEnd(tbl, session_id, now) ==
    [i \in DOMAIN tbl |-> IF tbl[i].session_id = session_id
                          THEN [tbl[i] EXCEPT !.ended_at = now] ELSE tbl[i]]

\* INSERT OR REPLACE INTO agents: the new row takes the place of the one in conflict
InsertOrReplaceAgent(tbl, row) ==
    IF AgentKeyConflict(tbl, row)
    THEN [i \in DOMAIN tbl |-> IF tbl[i].agent_id = row.agent_id THEN row ELSE tbl[i]]
    ELSE Append(tbl, row)

\* INSERT OR IGNORE INTO agents (...) VALUES (..., 'running')
InsertOrIgnoreAgent(tbl, row) == IF AgentKeyConflict(tbl, row) THEN tbl ELSE Append(tbl, row)

\* the row of the INSERT of log_agent_start
AgentRow(agent_id, session_id, agent_name, agent_type, prompt, user_command) ==
    [agent_id |-> agent_id, session_id |-> session_id, agent_name |-> agent_name,
     agent_type |-> agent_type, prompt |-> prompt, user_command |-> user_command,
     status |-> "running", completed_at |-> NullInt]

\* the UPDATE of log_agent_end with its WHERE clause lost
UpdateAgentEndAll(tbl, agent_id, status, now) ==
    [i \in DOMAIN tbl |-> [tbl[i] EXCEPT !.completed_at = now, !.status = status]]

\* UPDATE agents SET completed_at = CURRENT_TIMESTAMP, status = ? WHERE agent_id = ?
UpdateAgentEnd(tbl, agent_id, status, now) ==
    [i \in DOMAIN tbl |-> IF tbl[i].agent_id = agent_id
                          THEN [tbl[i] EXCEPT !.completed_at = now, !.status = status]
                          ELSE tbl[i]]

\* the row of the INSERT of log_tool_call_start: the parameters go to one of the two
\* columns, the row's flag says which; the other columns take their defaults
ToolCallRow(id, agent_id, session_id, tool_name, params_data, is_compressed) ==
    [id |-> id, agent_id |-> agent_id, session_id |-> session_id, tool_name |-> tool_name,
     parameters_json |-> IF is_compressed THEN None ELSE params_data,
     parameters_compressed |-> IF is_compressed THEN params_data ELSE None,
     is_compressed |-> IF is_compressed THEN 1 ELSE 0,
     result_json |-> None, result_compressed |-> None,
     status |-> "started", completed_at |-> NullInt, duration_ms |-> NullInt,
     error_message |-> None]

\* the SET clause of log_tool_call_end with `status = ?` lost
ToolCallEndedKeepStatus(row, result_data, result_compressed, duration_ms, status, error_message, now) ==
    IF result_compressed
    THEN [row EXCEPT !.completed_at = now, !.result_compressed = result_data,
                     !.duration_ms = duration_ms, !.error_message = error_message]
    ELSE [row EXCEPT !.completed_at = now, !.result_json = result_data,
                     !.duration_ms = duration_ms, !.error_message = error_message]

\* the SET clause of log_tool_call_end applied to one row
ToolCallEnded(row, result_data, result_compressed, duration_ms, status, error_message, now) ==
    IF result_compressed
    THEN [row EXCEPT !.completed_at = now, !.result_compressed = result_data,
                     !.duration_ms = duration_ms, !.status = status,
                     !.error_message = error_message]
    ELSE [row EXCEPT !.completed_at = now, !.result_json = result_data,
                     !.duration_ms = duration_ms, !.status = status,
                     !.error_message = error_message]

\* the UPDATE of log_tool_call_end with its WHERE clause lost
UpdateToolCallEndAll(tbl, call_id, result_data, result_compressed, duration_ms, status, error_message, now) ==
    [i \in DOMAIN tbl |-> ToolCallEnded(tbl[i], result_data, result_compressed, duration_ms,
                                        status, error_message, now)]

\* UPDATE tool_calls SET ... WHERE id = ?
UpdateToolCallEnd(tbl, call_id, result_data, result_compressed, duration_ms, status, error_message, now) ==
    [i \in DOMAIN tbl |-> IF tbl[i].id = call_id
                          THEN ToolCallEnded(tbl[i], result_data, result_compressed,
                                             duration_ms, status, error_message, now)
                          ELSE tbl[i]]

\* hashlib.sha256(content.encode()).hexdigest(): a digest that tells contents apart
Sha256Hex(content) == [t |-> "sha256", v |-> Utf8Encode(content.v)]

\* the row of the INSERT of log_modification
ModificationRow(id, tool_call_id, agent_id, modification_type, file_path, old_content, new_content) ==
    [id |-> id, tool_call_id |-> tool_call_id, agent_id |-> agent_id,
     modification_type |-> modification_type, file_path |-> file_path,
     old_content_hash |-> IF Truthy(old_content) THEN Sha256Hex(old_content) ELSE None,
     new_content_hash |-> IF Truthy(new_content) THEN Sha256Hex(new_content) ELSE None,
     diff_compressed |->
        IF Truthy(old_content) /\ Truthy(new_content)
        THEN compress_data(PyDict(<<[k |-> <<"old">>, x |-> old_content],
                                    [k |-> <<"new">>, x |-> new_content]>>))
        ELSE None]

\* the row of the INSERT of create_snapshot
SnapshotRow(id, session_id, agent_id, snapshot_type, state, is_compressed) ==
    [id |-> id, session_id |-> session_id, agent_id |-> agent_id,
     snapshot_type |-> snapshot_type,
     state_json |-> IF is_compressed THEN None ELSE state,
     state_compressed |-> IF is_compressed THEN state ELSE None,
     is_compressed |-> IF is_compressed THEN 1 ELSE 0]

----------------------------------------------------------------------------
(* lib/logger.py: each function as the tables, context and value it leaves.
   A `fail` argument is an error raised inside the function's try block before
   its commit (get_connection, execute or commit failing, or the compressor raising
   on a payload it cannot serialize): the function's own statement commits nothing. *)

\* what an operation leaves in lastOp
\* (had_session: whether the session of the operation had its row before it;
\*  event: the event a hook read; faults: the errors drawn for the hook's statements)
OpRecord(op, sid, aid, cid, status, ok, existed, out) ==
    [op |-> op, sid |-> sid, aid |-> aid, cid |-> cid, status |-> status, ok |-> ok,
     raised |-> FALSE, existed |-> existed, out |-> out, exit |-> NullInt,
     event |-> None, faults |-> <<>>,
     had_session |-> \E i \in DOMAIN sessions : sessions[i].session_id = sid]

NoOp == OpRecord("none", NullStr, NullStr, NullInt, NullStr, TRUE, FALSE, None)

\* log_session_start(session_id, user_command, working_directory, metadata)
log_session_start(tbl, c, e, session_id, user_command, working_directory, metadata, gen, fail) ==
    LET rs == IF session_id = NullStr THEN get_current_session(c, e, gen)
              ELSE [id |-> session_id, ctx |-> c]
        wd == IF working_directory = NullStr THEN get_working_directory(e)
              ELSE working_directory
        uc == IF user_command = NullStr THEN get_user_command(e) ELSE user_command
        metadata_json == IF Truthy(metadata) THEN PyStr(JsonDumpsDefault(metadata)) ELSE None
    IN [sessions |-> IF fail THEN tbl
                     ELSE InsertOrIgnoreSession(tbl, SessionRow(rs.id, uc, wd, metadata_json)),
        ctx |-> rs.ctx, ret |-> rs.id]

\* log_session_end(session_id)
log_session_end(tbl, c, e, session_id, gen, now, fail) ==
    LET rs == IF session_id = NullStr THEN get_current_session(c, e, gen)
              ELSE [id |-> session_id, ctx |-> c]
    IN [sessions |-> IF fail THEN tbl ELSE UpdateSessionEnd(tbl, rs.id, now),
        ctx |-> rs.ctx, ret |-> rs.id]

\* log_agent_start(agent_id, agent_name, agent_type, prompt, user_command, session_id)
log_agent_start(stbl, atbl, c, e, agent_id, agent_name, agent_type, prompt, user_command, session_id, gen, fail1, fail2) ==
    LET rs == IF session_id = NullStr THEN get_current_session(c, e, gen)
              ELSE [id |-> session_id, ctx |-> c]
        ss == log_session_start(stbl, rs.ctx, e, rs.id, NullStr, NullStr, None, gen, fail1)
    IN [sessions |-> ss.sessions,
        agents |-> IF fail2 THEN atbl
                   ELSE InsertOrIgnoreAgent(atbl, AgentRow(agent_id, rs.id, agent_name,
                                                           agent_type, prompt, user_command)),
        ctx |-> ss.ctx, sid |-> rs.id, ret |-> agent_id]

\* log_agent_end(agent_id, status)
log_agent_end(atbl, agent_id, status, now, fail) ==
    IF fail THEN atbl ELSE UpdateAgentEnd(atbl, agent_id, status, now)

\* log_tool_call_start(tool_name, parameters, agent_id, session_id) -> call_id or None
log_tool_call_start(stbl, ttbl, c, e, tool_name, parameters, agent_id, session_id, gen, fail1, fail2) ==
    LET rs == IF session_id = NullStr THEN get_current_session(c, e, gen)
              ELSE [id |-> session_id, ctx |-> c]
        ra == IF agent_id = NullStr THEN get_current_agent(rs.ctx, e)
              ELSE [id |-> agent_id, ctx |-> rs.ctx]
        ss == log_session_start(stbl, ra.ctx, e, rs.id, NullStr, NullStr, None, gen, fail1)
        p == compress_if_large(parameters, DEFAULT_COMPRESSION_THRESHOLD)
    IN [sessions |-> ss.sessions,
        tool_calls |-> IF fail2 THEN ttbl
                       ELSE Append(ttbl, ToolCallRow(NextRowId(ttbl), ra.id, rs.id, tool_name,
                                                     p.data, p.is_compressed)),
        ctx |-> ss.ctx, sid |-> rs.id, aid |-> ra.id,
        ret |-> IF fail2 THEN NullInt ELSE NextRowId(ttbl)]

\* log_tool_call_end(call_id, result, duration_ms, status, error_message)
log_tool_call_end(ttbl, call_id, result, duration_ms, status, error_message, now, fail) ==
    IF call_id = NullInt \/ fail THEN ttbl
    ELSE LET r == compress_if_large(result, DEFAULT_COMPRESSION_THRESHOLD)
         IN UpdateToolCallEnd(ttbl, call_id, r.data, r.is_compressed, duration_ms, status,
                              error_message, now)

\* log_modification: content.encode() of a content that is no str raises inside the try
ModificationRaises(old_content, new_content) ==
    \/ Truthy(old_content) /\ old_content.t # "str"
    \/ Truthy(new_content) /\ new_content.t # "str"

\* log_modification(tool_call_id, modification_type, file_path, old_content, new_content,
\* agent_id)
log_modification(mtbl, c, e, tool_call_id, modification_type, file_path, old_content, new_content, agent_id, fail) ==
    LET ra == IF agent_id = NullStr THEN get_current_agent(c, e) ELSE [id |-> agent_id, ctx |-> c]
        ok == ~fail /\ ~ModificationRaises(old_content, new_content)
    IN [modifications |->
            IF ok THEN Append(mtbl, ModificationRow(NextRowId(mtbl), tool_call_id, ra.id,
                                                    modification_type, file_path,
                                                    old_content, new_content))
            ELSE mtbl,
        ctx |-> ra.ctx, aid |-> ra.id, ok |-> ok]

\* create_snapshot(snapshot_type, state_data, agent_id, session_id) -> snapshot_id or None
create_snapshot(ntbl, c, e, snapshot_type, state_data, agent_id, session_id, gen, fail) ==
    LET rs == IF session_id = NullStr THEN get_current_session(c, e, gen)
              ELSE [id |-> session_id, ctx |-> c]
        ra == IF agent_id = NullStr THEN get_current_agent(rs.ctx, e)
              ELSE [id |-> agent_id, ctx |-> rs.ctx]
        st == compress_if_large(state_data, DEFAULT_COMPRESSION_THRESHOLD)
    IN [state_snapshots |->
            IF fail THEN ntbl
            ELSE Append(ntbl, SnapshotRow(NextRowId(ntbl), rs.id, ra.id, snapshot_type,
                                          st.data, st.is_compressed)),
        ctx |-> ra.ctx, sid |-> rs.id, aid |-> ra.id,
        ret |-> IF fail THEN NullInt ELSE NextRowId(ntbl)]

----------------------------------------------------------------------------
(* hooks/pretooluse.py and hooks/posttooluse.py: one hook run is one short-lived
   process, whose session tracker context starts empty *)

\* d.get(key, default) of a dict
DictGet(d, key, default) ==
    IF \E i \in DOMAIN d.v : d.v[i].k = key
    THEN d.v[CHOOSE i \in DOMAIN d.v : d.v[i].k = key].x
    ELSE default

\* an int or None as a column value
IntOrNull(x) == IF x.t = "int" THEN x.v ELSE NullInt

\* str(x)
PyStrAny(x) == IF x.t = "str" THEN x.v ELSE PyStrOf(x)

\* pretooluse.main(): the tables it leaves and the line it prints
pretooluse_main(stbl, ttbl, e, input_data, gen, fail1, fail2, fail3) ==
    IF input_data.t # "dict"
    THEN [sessions |-> stbl, tool_calls |-> ttbl, call_id |-> NullInt, sid |-> NullStr,
          aid |-> NullStr, ok |-> FALSE,
          out |-> PyDict(<<[k |-> <<"systemMessage">>, x |-> PyStr(<<"error">>)]>>)]
    ELSE LET tool_name == DictGet(input_data, <<"tool_name">>, PyStr(<<"Unknown">>))
             parameters == DictGet(input_data, <<"parameters">>, PyDict(<<>>))
             rs == get_current_session(InitCtx, e, gen)
             ra == get_current_agent(rs.ctx, e)
             ss == log_session_start(stbl, ra.ctx, e, rs.id, NullStr, NullStr, None, gen, fail1)
             tc == log_tool_call_start(ss.sessions, ttbl, ss.ctx, e, tool_name, parameters,
                                       ra.id, rs.id, gen, fail2, fail3)
         IN [sessions |-> tc.sessions, tool_calls |-> tc.tool_calls, call_id |-> tc.ret,
             sid |-> tc.sid, aid |-> tc.aid, ok |-> TRUE,
             out |-> PyDict(<<[k |-> <<"call_id">>,
                               x |-> IF tc.ret = NullInt THEN None ELSE PyInt(tc.ret)],
                              [k |-> <<"timestamp">>,
                               x |-> DictGet(input_data, <<"timestamp">>, None)]>>)]

\* track_file_modification without its MultiEdit branch
track_file_modification_no_multi(mtbl, e, input_data, call_id, fail) ==
    LET tool_name == DictGet(input_data, <<"tool_name">>, PyStr(<<>>))
        parameters == DictGet(input_data, <<"parameters">>, PyDict(<<>>))
        ra == get_current_agent(InitCtx, e)
        file_path == IF parameters.t = "dict" THEN DictGet(parameters, <<"file_path">>, None)
                     ELSE None
        mod(type, old, new) ==
            log_modification(mtbl, ra.ctx, e, IntOrNull(call_id), type, file_path, old, new,
                             ra.id, fail).modifications
    IN IF parameters.t # "dict" \/ ~Truthy(file_path) THEN mtbl
       ELSE IF tool_name = PyStr(<<"Write">>)
            THEN mod("file_write", None, DictGet(parameters, <<"content">>, PyStr(<<>>)))
       ELSE IF tool_name = PyStr(<<"Edit">>)
            THEN mod("file_edit", DictGet(parameters, <<"old_string">>, PyStr(<<>>)),
                     DictGet(parameters, <<"new_string">>, PyStr(<<>>)))
       ELSE mtbl

\* posttooluse.track_file_modification(input_data, call_id)
track_file_modification(mtbl, e, input_data, call_id, fail) ==
    LET tool_name == DictGet(input_data, <<"tool_name">>, PyStr(<<>>))
        parameters == DictGet(input_data, <<"parameters">>, PyDict(<<>>))
        ra == get_current_agent(InitCtx, e)
        file_path == IF parameters.t = "dict" THEN DictGet(parameters, <<"file_path">>, None)
                     ELSE None
        mod(type, old, new) ==
            log_modification(mtbl, ra.ctx, e, IntOrNull(call_id), type, file_path, old, new,
                             ra.id, fail).modifications
    IN IF parameters.t # "dict" \/ ~Truthy(file_path) THEN mtbl
       ELSE IF tool_name = PyStr(<<"Write">>)
            THEN mod("file_write", None, DictGet(parameters, <<"content">>, PyStr(<<>>)))
       ELSE IF tool_name = PyStr(<<"Edit">>)
            THEN mod("file_edit", DictGet(parameters, <<"old_string">>, PyStr(<<>>)),
                     DictGet(parameters, <<"new_string">>, PyStr(<<>>)))
       ELSE IF tool_name = PyStr(<<"MultiEdit">>)
            THEN mod("file_multi_edit",
                     PyStr(JsonDumpsDefault(DictGet(parameters, <<"edits">>, PyList(<<>>)))),
                     PyStr(<<"[multiple edits]">>))
       ELSE mtbl

WriteTools == {PyStr(<<"Write">>), PyStr(<<"Edit">>), PyStr(<<"MultiEdit">>)}

\* posttooluse.main(): the tables it leaves and the line it prints
posttooluse_main(ttbl, mtbl, e, input_data, now, fail1, fail2) ==
    IF input_data.t # "dict"
    THEN [tool_calls |-> ttbl, modifications |-> mtbl, call_id |-> NullInt,
          status |-> NullStr, ok |-> FALSE,
          out |-> PyDict(<<[k |-> <<"systemMessage">>, x |-> PyStr(<<"error">>)]>>)]
    ELSE LET tool_name == DictGet(input_data, <<"tool_name">>, PyStr(<<"Unknown">>))
             result == DictGet(input_data, <<"result">>, PyDict(<<>>))
             error == DictGet(input_data, <<"error">>, None)
             call_id == DictGet(input_data, <<"call_id">>, None)
             start_time == DictGet(input_data, <<"start_timestamp">>, None)
             end_time == DictGet(input_data, <<"end_timestamp">>, None)
             duration_ms == IF Truthy(start_time) /\ Truthy(end_time)
                            THEN (end_time.v - start_time.v) * 1000 ELSE NullInt
             status == IF Truthy(error) THEN "failed" ELSE "completed"
             error_message == IF Truthy(error) THEN PyStr(PyStrAny(error)) ELSE None
         IN [tool_calls |-> IF Truthy(call_id)
                            THEN log_tool_call_end(ttbl, IntOrNull(call_id), result,
                                                   duration_ms, status, error_message, now,
                                                   fail1)
                            ELSE ttbl,
             modifications |-> IF tool_name \in WriteTools /\ status = "completed"
                               THEN track_file_modification(mtbl, e, input_data, call_id, fail2)
                               ELSE mtbl,
             call_id |-> IntOrNull(call_id), status |-> status, ok |-> TRUE,
             out |-> PyDict(<<>>)]

----------------------------------------------------------------------------
(* The logger and the hooks run one operation at a time against one store *)

HasSession(id) == \E i \in DOMAIN sessions : sessions[i].session_id = id
HasAgent(id) == \E i \in DOMAIN agents : agents[i].agent_id = id
HasCall(id) == \E i \in DOMAIN tool_calls : tool_calls[i].id = id

Unset == [t |-> "unset"]

\* a field of a hook's event, for the history
EventGet(input_data, key, default) ==
    IF input_data.t = "dict" THEN DictGet(input_data, key, default) ELSE default

\* given, after a tool_calls row was inserted for `parameters`
GivenStarted(g, inserted, parameters) ==
    IF inserted THEN Append(g, [parameters |-> parameters, result |-> Unset]) ELSE g

\* given, after a log_tool_call_end(call_id, result) that reached the store
GivenEnded(g, call_id, result, reached) ==
    [i \in DOMAIN g |-> IF reached /\ i = call_id THEN [g[i] EXCEPT !.result = result] ELSE g[i]]

ALogSessionStart(session_id, user_command, gen, fail) ==
    LET r == log_session_start(sessions, ctx, env, session_id, user_command, NullStr, None,
                               gen, fail)
    IN /\ sessions' = r.sessions
       /\ ctx' = r.ctx
       /\ lastOp' = OpRecord("log_session_start", r.ret, NullStr, NullInt, NullStr, ~fail,
                             HasSession(r.ret), None)
       /\ UNCHANGED <<agents, tool_calls, modifications, state_snapshots, given>>

ALogSessionEnd(session_id, gen, now, fail) ==
    LET r == log_session_end(sessions, ctx, env, session_id, gen, now, fail)
    IN /\ sessions' = r.sessions
       /\ ctx' = r.ctx
       /\ lastOp' = OpRecord("log_session_end", r.ret, NullStr, NullInt, NullStr, ~fail,
                             HasSession(r.ret), None)
       /\ UNCHANGED <<agents, tool_calls, modifications, state_snapshots, given>>

ALogAgentStart(agent_id, session_id, gen, fail1, fail2) ==
    LET r == log_agent_start(sessions, agents, ctx, env, agent_id, "agent", NullStr, NullStr,
                             NullStr, session_id, gen, fail1, fail2)
    IN /\ sessions' = r.sessions
       /\ agents' = r.agents
       /\ ctx' = r.ctx
       /\ lastOp' = OpRecord("log_agent_start", r.sid, agent_id, NullInt, NullStr,
                             ~fail1 /\ ~fail2, HasAgent(agent_id), None)
       /\ UNCHANGED <<tool_calls, modifications, state_snapshots, given>>

ALogAgentEnd(agent_id, status, now, fail) ==
    /\ agents' = log_agent_end(agents, agent_id, status, now, fail)
    /\ lastOp' = OpRecord("log_agent_end", NullStr, agent_id, NullInt, status, ~fail,
                          HasAgent(agent_id), None)
    /\ UNCHANGED <<sessions, tool_calls, modifications, state_snapshots, ctx, given>>

ALogToolCallStart(tool_name, parameters, agent_id, session_id, gen, fail1, fail2) ==
    /\ LET r == log_tool_call_start(sessions, tool_calls, ctx, env, tool_name, parameters,
                                    agent_id, session_id, gen, fail1, fail2)
       IN /\ Len(r.tool_calls) <= MaxCalls
          /\ sessions' = r.sessions
          /\ tool_calls' = r.tool_calls
          /\ ctx' = r.ctx
          /\ given' = GivenStarted(given, r.ret # NullInt, parameters)
          /\ lastOp' = OpRecord("log_tool_call_start", r.sid, r.aid, r.ret, NullStr,
                                ~fail1 /\ ~fail2, HasSession(r.sid), None)
    /\ UNCHANGED <<agents, modifications, state_snapshots>>

ALogToolCallEnd(call_id, result, duration_ms, status, error_message, now, fail) ==
    /\ tool_calls' = log_tool_call_end(tool_calls, call_id, result, duration_ms, status,
                                       error_message, now, fail)
    /\ given' = GivenEnded(given, call_id, result, ~fail)
    /\ lastOp' = OpRecord("log_tool_call_end", NullStr, NullStr, call_id, status, ~fail,
                          HasCall(call_id), None)
    /\ UNCHANGED <<sessions, agents, modifications, state_snapshots, ctx>>

ALogModification(tool_call_id, modification_type, file_path, old_content, new_content, agent_id, fail) ==
    /\ LET r == log_modification(modifications, ctx, env, tool_call_id, modification_type,
                                 file_path, old_content, new_content, agent_id, fail)
       IN /\ Len(r.modifications) + Len(state_snapshots) <= MaxAux
          /\ modifications' = r.modifications
          /\ ctx' = r.ctx
          /\ lastOp' = OpRecord("log_modification", NullStr, r.aid, tool_call_id, NullStr,
                                r.ok, FALSE, None)
    /\ UNCHANGED <<sessions, agents, tool_calls, state_snapshots, given>>

ACreateSnapshot(snapshot_type, state_data, agent_id, session_id, gen, fail) ==
    /\ LET r == create_snapshot(state_snapshots, ctx, env, snapshot_type, state_data,
                                agent_id, session_id, gen, fail)
       IN /\ Len(modifications) + Len(r.state_snapshots) <= MaxAux
          /\ state_snapshots' = r.state_snapshots
          /\ ctx' = r.ctx
          /\ lastOp' = OpRecord("create_snapshot", r.sid, r.aid, r.ret, NullStr, ~fail,
                                FALSE, None)
    /\ UNCHANGED <<sessions, agents, tool_calls, modifications, given>>

\* the exit status of a hook script whose main() lets an exception of its try
\* block escape
HookExitUncaught(path) == IF path = "raised" THEN 1 ELSE 0

\* the exit status of a hook script by the path it took: "import_error" ends in the
\* sys.exit(0) of the import block's except clause; "returned" (the try block of
\* main() ran through) and "raised" (it raised, the except clause printed the
\* message) both end in the sys.exit(0) of the finally clause
HookExit(path) == IF path \in {"import_error", "returned", "raised"} THEN 0 ELSE 1

\* the line a hook prints when it could not log
SystemMessage == PyDict(<<[k |-> <<"systemMessage">>, x |-> PyStr(<<"error">>)]>>)

\* a run of a hook script whose imports of logger or session_tracker meet ImportError
HookImportError(hook) ==
    /\ lastOp' = [OpRecord(hook, NullStr, NullStr, NullInt, NullStr, FALSE, FALSE,
                           SystemMessage) EXCEPT !.exit = HookExit("import_error")]
    /\ UNCHANGED <<storeVars, given, ctx>>

\* one run of the PreToolUse hook
PreToolUse(input_data, gen, fail1, fail2, fail3) ==
    /\ LET r == pretooluse_main(sessions, tool_calls, env, input_data, gen, fail1, fail2, fail3)
       IN /\ Len(r.tool_calls) <= MaxCalls
          /\ sessions' = r.sessions
          /\ tool_calls' = r.tool_calls
          /\ given' = GivenStarted(given, r.call_id # NullInt,
                                   EventGet(input_data, <<"parameters">>, PyDict(<<>>)))
          /\ lastOp' = [OpRecord("pretooluse", r.sid, r.aid, r.call_id, NullStr, r.ok,
                                 HasSession(r.sid), r.out)
                         EXCEPT !.exit = HookExit(IF r.ok THEN "returned" ELSE "raised"),
                                !.event = input_data,
                                !.faults = <<fail1, fail2, fail3>>]
    /\ UNCHANGED <<agents, modifications, state_snapshots, ctx>>

\* one run of the PostToolUse hook
PostToolUse(input_data, now, fail1, fail2) ==
    /\ LET r == posttooluse_main(tool_calls, modifications, env, input_data, now, fail1, fail2)
       IN /\ Len(r.modifications) + Len(state_snapshots) <= MaxAux
          /\ tool_calls' = r.tool_calls
          /\ modifications' = r.modifications
          /\ given' = GivenEnded(given, r.call_id,
                                 EventGet(input_data, <<"result">>, PyDict(<<>>)),
                                 r.call_id # NullInt /\ ~fail1)
          /\ lastOp' = [OpRecord("posttooluse", NullStr, NullStr, r.call_id, r.status, r.ok,
                                 HasCall(r.call_id), r.out)
                         EXCEPT !.exit = HookExit(IF r.ok THEN "returned" ELSE "raised"),
                                !.event = input_data,
                                !.faults = <<fail1, fail2>>]
    /\ UNCHANGED <<sessions, agents, state_snapshots, ctx>>

----------------------------------------------------------------------------
(* The inputs drawn *)

SessionIds == {"S1"}
GenIds == {"G1"}
AgentIds == {"A1"}
Timestamps == {1}
SmallPayload == PyDict(<<[k |-> <<"a">>, x |-> PyInt(1)]>>)
LargePayload == PyStr(<<"X", "a">>)
LogPayloads == {SmallPayload, LargePayload}
\* (status, error_message, duration_ms) as the post-call hook passes them without timestamps
EndArgs == {[status |-> "completed", error_message |-> None, duration_ms |-> NullInt]}
CallIdArgs == {NullInt} \cup (1..MaxCalls)

WriteParameters == PyDict(<<[k |-> <<"file_path">>, x |-> PyStr(<<"a">>)],
                            [k |-> <<"content">>, x |-> PyStr(<<"a">>)]>>)

PreEvents ==
    {Raised("JSONDecodeError"),
     PyDict(<<[k |-> <<"tool_name">>, x |-> PyStr(<<"Write">>)],
              [k |-> <<"parameters">>, x |-> WriteParameters]>>)}

PostEvent(tool_name, result, error, call_id) ==
    PyDict(<<[k |-> <<"tool_name">>, x |-> PyStr(<<tool_name>>)],
             [k |-> <<"parameters">>, x |-> WriteParameters],
             [k |-> <<"result">>, x |-> result],
             [k |-> <<"error">>, x |-> error],
             [k |-> <<"call_id">>, x |-> call_id]>>)

PostEvents ==
    {Raised("JSONDecodeError"),
     PostEvent("Bash", SmallPayload, PyStr(<<"a">>), PyInt(1)),
     PostEvent("Bash", LargePayload, None, PyInt(1)),
     PostEvent("Bash", SmallPayload, None, None)}

DefaultEnv ==
    [CLAUDE_SESSION_ID |-> NullStr, CLAUDE_AGENT_ID |-> NullStr, session_files |-> <<>>,
     task_dirs |-> <<>>, cwd |-> "cwd", history |-> "hist"]

\* (session_id, user_command) of a direct log_session_start
SessionStartArgs ==
    {[session_id |-> "S1", user_command |-> NullStr],
     [session_id |-> "S1", user_command |-> "cmd"],
     [session_id |-> NullStr, user_command |-> NullStr]}

Envs ==
    {[CLAUDE_SESSION_ID |-> s, CLAUDE_AGENT_ID |-> NullStr, session_files |-> <<>>,
      task_dirs |-> <<>>, cwd |-> "cwd", history |-> "hist"] : s \in {NullStr, "S2"}}

CodecUnused == cIn = [data |-> None, threshold |-> 0] /\ cOut = CodecIdle
ConcUnused == db = [exists |-> FALSE] /\ procs = <<>>

StoreInit ==
    /\ sessions = <<>>
    /\ agents = <<>>
    /\ tool_calls = <<>>
    /\ modifications = <<>>
    /\ state_snapshots = <<>>
    /\ given = <<>>
    /\ resolved = <<>>
    /\ ctx = InitCtx
    /\ lastOp = NoOp

Init ==
    /\ StoreInit
    /\ env \in Envs
    /\ CodecUnused
    /\ ConcUnused

\* the other processes' variables, which no logger operation touches
Others == <<env, resolved, cIn, cOut, db, procs>>

(* Sessions and agents: every operation that can insert a session row *)
Next ==
    \/ \E a \in SessionStartArgs, gen \in GenIds, fail \in BOOLEAN :
          ALogSessionStart(a.session_id, a.user_command, gen, fail) /\ UNCHANGED Others
    \/ \E sid \in SessionIds \cup {NullStr}, gen \in GenIds, now \in Timestamps :
          ALogSessionEnd(sid, gen, now, FALSE) /\ UNCHANGED Others
    \/ \E aid \in AgentIds, sid \in SessionIds \cup {NullStr}, gen \in GenIds,
          fail \in BOOLEAN :
          ALogAgentStart(aid, sid, gen, fail, FALSE) /\ UNCHANGED Others
    \/ \E gen \in GenIds, fail \in BOOLEAN :
          ALogToolCallStart(PyStr(<<"Write">>), WriteParameters, NullStr, NullStr, gen,
                            fail, FALSE)
          /\ UNCHANGED Others
    \/ \E ev \in PreEvents, gen \in GenIds, fail \in BOOLEAN :
          PreToolUse(ev, gen, fail, fail, FALSE) /\ UNCHANGED Others

Spec == Init /\ [][Next]_vars

(* Tool calls: their rows from start to end, in one session *)
CallsInit ==
    /\ StoreInit
    /\ env = DefaultEnv
    /\ CodecUnused
    /\ ConcUnused

CallsNext ==
    \/ \E p \in LogPayloads :
          ALogToolCallStart(PyStr(<<"Bash">>), p, NullStr, "S1", "G1", FALSE, FALSE)
          /\ UNCHANGED Others
    \/ \E cid \in CallIdArgs, r \in LogPayloads, a \in EndArgs, now \in Timestamps,
          fail \in BOOLEAN :
          ALogToolCallEnd(cid, r, a.duration_ms, a.status, a.error_message, now, fail)
          /\ UNCHANGED Others
    \/ \E aid \in AgentIds :
          ALogAgentStart(aid, "S1", "G1", FALSE, FALSE) /\ UNCHANGED Others
    \/ \E aid \in AgentIds \cup {"A2"}, now \in Timestamps :
          ALogAgentEnd(aid, "completed", now, FALSE) /\ UNCHANGED Others
    \/ \E ev \in PostEvents, now \in Timestamps :
          PostToolUse(ev, now, FALSE, FALSE) /\ UNCHANGED Others

SpecCalls == CallsInit /\ [][CallsNext]_vars

(* Snapshots and modifications, beside the tool calls they refer to *)
AuxNext ==
    \/ \E fail \in BOOLEAN :
          ALogToolCallStart(PyStr(<<"Write">>), WriteParameters, NullStr, "S1", "G1",
                            FALSE, fail)
          /\ UNCHANGED Others
    \/ \E p \in LogPayloads, sid \in SessionIds \cup {NullStr}, gen \in GenIds,
          fail \in BOOLEAN :
          ACreateSnapshot("checkpoint", p, NullStr, sid, gen, fail) /\ UNCHANGED Others
    \/ \E cid \in CallIdArgs, old_content \in {None, PyStr(<<"a">>)},
          new_content \in {PyStr(<<"a">>), PyInt(1)}, fail \in BOOLEAN :
          ALogModification(cid, "file_edit", PyStr(<<"a">>), old_content, new_content,
                           NullStr, fail)
          /\ UNCHANGED Others

SpecAux == CallsInit /\ [][AuxNext]_vars

(* Two processes in log_session_start("S1", ...) against one store file.  A step is
   one call or one SQL statement of db/init_db.py or lib/logger.py; a process that
   meets an error leaves through the except clause of log_session_start. *)

Procs == {"p1", "p2"}

\* the tables of db/schema.sql, in the order of their CREATE TABLE statements
SchemaTables == <<"sessions", "agents", "tool_calls", "modifications", "state_snapshots">>

\* the store file: absent, or provisioned by an earlier process.  if_not_exists says
\* whether the CREATE TABLE statements of the schema carry IF NOT EXISTS.
StoreFiles ==
    {[exists |-> FALSE, tables |-> {}, writer |-> "none", if_not_exists |-> b] :
        b \in BOOLEAN} \cup
    {[exists |-> TRUE, tables |-> {SchemaTables[i] : i \in DOMAIN SchemaTables},
      writer |-> "none", if_not_exists |-> b] : b \in BOOLEAN}

ProcInit(p) ==
    [pc |-> "exists", stmt |-> 1, txn |-> <<>>, error |-> "none", provisioned |-> FALSE,
     user_command |-> p]

ConcInit ==
    /\ StoreInit
    /\ env = DefaultEnv
    /\ CodecUnused
    /\ db \in StoreFiles
    /\ procs = [p \in Procs |-> ProcInit(p)]

ConcOthers == <<agents, tool_calls, modifications, state_snapshots, ctx, lastOp, env, given, resolved,
                cIn, cOut>>

\* the except clause of log_session_start: the error is printed, the id returned
Fails(p, error) == procs' = [procs EXCEPT ![p].pc = "done", ![p].error = error]

\* get_connection: `if not os.path.exists(db_path)`
GcExists(p) ==
    /\ procs[p].pc = "exists"
    /\ procs' = [procs EXCEPT ![p].pc = IF db.exists THEN "connect" ELSE "init_connect"]
    /\ UNCHANGED <<db, sessions>>

\* init_database: sqlite3.connect(db_path) creates the file, still without tables
InitConnect(p) ==
    /\ procs[p].pc = "init_connect"
    /\ db' = [db EXCEPT !.exists = TRUE]
    /\ procs' = [procs EXCEPT ![p].pc = "executescript", ![p].provisioned = TRUE]
    /\ UNCHANGED sessions

\* init_database: cursor.executescript(schema_sql), one CREATE TABLE at a time; a table
\* that is there fails a plain CREATE TABLE, and get_connection raises RuntimeError
ExecuteScript(p) ==
    /\ procs[p].pc = "executescript"
    /\ LET t == SchemaTables[procs[p].stmt]
           next == IF procs[p].stmt = Len(SchemaTables)
                   THEN [procs EXCEPT ![p].pc = "connect"]
                   ELSE [procs EXCEPT ![p].stmt = @ + 1]
       IN IF t \in db.tables
          THEN /\ IF db.if_not_exists THEN procs' = next ELSE Fails(p, "RuntimeError")
               /\ UNCHANGED db
          ELSE /\ db.writer = "none"
               /\ db' = [db EXCEPT !.tables = @ \cup {t}]
               /\ procs' = next
    /\ UNCHANGED sessions

\* get_connection: sqlite3.connect(db_path)
GcConnect(p) ==
    /\ procs[p].pc = "connect"
    /\ db' = [db EXCEPT !.exists = TRUE]
    /\ procs' = [procs EXCEPT ![p].pc = "insert"]
    /\ UNCHANGED sessions

\* log_session_start: cursor.execute(INSERT OR IGNORE INTO sessions ...), which opens
\* the write transaction; without the table it raises OperationalError
ExecuteInsert(p) ==
    /\ procs[p].pc = "insert"
    /\ IF "sessions" \notin db.tables
       THEN /\ Fails(p, "OperationalError")
            /\ UNCHANGED db
       ELSE /\ db.writer = "none"
            /\ db' = [db EXCEPT !.writer = p]
            /\ procs' = [procs EXCEPT
                  ![p].pc = "commit",
                  ![p].txn = InsertOrIgnoreSession(
                                 sessions,
                                 SessionRow("S1", procs[p].user_command,
                                            get_working_directory(env), None))]
    /\ UNCHANGED sessions

\* a statement that needs the write lock another connection holds gives up after the
\* busy timeout: OperationalError (database is locked)
BusyTimeout(p) ==
    /\ \/ procs[p].pc = "insert" /\ "sessions" \in db.tables
       \/ procs[p].pc = "executescript" /\ SchemaTables[procs[p].stmt] \notin db.tables
    /\ db.writer \notin {"none", p}
    /\ Fails(p, IF procs[p].pc = "insert" THEN "OperationalError" ELSE "RuntimeError")
    /\ UNCHANGED <<db, sessions>>

\* log_session_start: conn.commit(); conn.close()
Commit(p) ==
    /\ procs[p].pc = "commit"
    /\ sessions' = procs[p].txn
    /\ db' = [db EXCEPT !.writer = "none"]
    /\ procs' = [procs EXCEPT ![p].pc = "done"]

ConcNext ==
    \/ \E p \in Procs : GcExists(p) /\ UNCHANGED ConcOthers
    \/ \E p \in Procs : InitConnect(p) /\ UNCHANGED ConcOthers
    \/ \E p \in Procs : ExecuteScript(p) /\ UNCHANGED ConcOthers
    \/ \E p \in Procs : GcConnect(p) /\ UNCHANGED ConcOthers
    \/ \E p \in Procs : ExecuteInsert(p) /\ UNCHANGED ConcOthers
    \/ \E p \in Procs : BusyTimeout(p) /\ UNCHANGED ConcOthers
    \/ \E p \in Procs : Commit(p) /\ UNCHANGED ConcOthers

SpecConc == ConcInit /\ [][ConcNext]_vars

(* The compressor alone *)

CodecOthers == <<sessions, agents, tool_calls, modifications, state_snapshots, ctx, lastOp,
                 env, given, resolved, db, procs>>

CodecSpecInit ==
    /\ StoreInit
    /\ env = DefaultEnv
    /\ ConcUnused
    /\ CodecInit

CodecNext ==
    \/ CodecCompressIfLarge /\ UNCHANGED CodecOthers
    \/ CodecCompressData /\ UNCHANGED CodecOthers
    \/ CodecDecompress /\ UNCHANGED CodecOthers

SpecCodec == CodecSpecInit /\ [][CodecNext]_vars

----------------------------------------------------------------------------
(* Properties of the compressor *)

\* the canonical serialization of a payload, as bytes: a text is its own
\* serialization, a structured value and any other scalar serialize as compact
\* JSON, bytes stand for themselves
CanonicalSerialize(P) ==
    CASE P.t = "str" -> Utf8Encode(P.v)
      [] P.t = "bytes" -> P.v
      [] OTHER -> Utf8Encode(JsonDumpsCompact(P))

\* the serialized byte size of a payload
SerializedSize(P) == ByteLen(CanonicalSerialize(P))

\* C9: for every payload P and threshold t, compress_if_large(P, t) answers
\* is_compressed = FALSE when the serialized size of P is at most t and TRUE when
\* it is greater; a size equal to t is not compressed.
C9_ThresholdLaw ==
    cOut.op = "compress_if_large" =>
        (cOut.is_compressed <=> SerializedSize(cIn.data) > cIn.threshold)

\* compress_if_large has answered for a payload of exactly 10240 bytes under the
\* default threshold, and for one of a size equal to a small positive threshold
C9_AtThreshold ==
    /\ cOut.op = "compress_if_large"
    /\ SerializedSize(cIn.data) = cIn.threshold
    /\ cIn.threshold = DEFAULT_COMPRESSION_THRESHOLD
    /\ ~cOut.is_compressed

\* C10: for every payload P, decompress_data(compress_data(P)) is the canonical
\* serialization of P, and so is decompress_data of the blob that the compressed
\* branch of compress_if_large returns.
C10_RoundTrip ==
    cOut.op = "decompress_data" =>
        /\ cOut.text.t = "str"
        /\ Utf8Encode(cOut.text.v) = CanonicalSerialize(cIn.data)

\* the round trip has been taken through compress_data for a scalar that is no text
C10_ScalarRoundTrip ==
    /\ cOut.op = "decompress_data"
    /\ ~cOut.is_compressed
    /\ cIn.data.t \in {"null", "bool"}

----------------------------------------------------------------------------
(* Properties of the tool_calls rows *)

\* the positions of the tool_calls rows of an id
RowsWithId(tbl, id) == {i \in DOMAIN tbl : tbl[i].id = id}

\* the row of an id that has one
CallRow(tbl, id) == tbl[CHOOSE i \in DOMAIN tbl : tbl[i].id = id]

\* the columns that log_tool_call_end writes
CompletionFields(row) ==
    <<row.status, row.result_json, row.result_compressed, row.completed_at,
      row.duration_ms, row.error_message>>

\* the step is a log_tool_call_end, called directly or by the post-call hook
EndStep == lastOp'.op \in {"log_tool_call_end", "posttooluse"}

\* C3: log_tool_call_start followed by log_tool_call_end with the id it returned
\* leaves exactly one tool_calls row for that call, whose status went from started
\* to completed and whose completed_at is not NULL (the store accepting the update).
C3_Lifecycle ==
    [][(/\ lastOp'.op = "log_tool_call_end"
        /\ lastOp'.ok
        /\ lastOp'.status = "completed"
        /\ RowsWithId(tool_calls, lastOp'.cid) # {}
        /\ CallRow(tool_calls, lastOp'.cid).status = "started")
       => /\ Cardinality(RowsWithId(tool_calls', lastOp'.cid)) = 1
          /\ CallRow(tool_calls', lastOp'.cid).status = "completed"
          /\ CallRow(tool_calls', lastOp'.cid).completed_at # NullInt]_vars

\* a started call has been ended with the id that its start returned
C3_Ended ==
    /\ lastOp.op = "log_tool_call_end"
    /\ lastOp.ok
    /\ lastOp.existed
    /\ \E i \in DOMAIN given : i = lastOp.cid /\ given[i].result # Unset
    /\ CallRow(tool_calls, lastOp.cid).status = "completed"
    /\ CallRow(tool_calls, lastOp.cid).completed_at # NullInt

\* C4: a tool_calls row is updated exactly once at completion: once it has left status
\* started, no later operation changes its status, result, completed_at, duration_ms
\* or error_message.
C4_UpdatedOnce ==
    [][\A i \in DOMAIN tool_calls :
          tool_calls[i].status # "started" =>
              CompletionFields(tool_calls'[i]) = CompletionFields(tool_calls[i])]_vars

\* C5: log_tool_call_end(call_id, ...) changes only the tool_calls row whose id is
\* call_id; every other tool_calls row and every row of the other tables is unchanged,
\* so a started row whose id is not passed stays started.
C5_Frame ==
    [][/\ EndStep =>
            /\ DOMAIN tool_calls' = DOMAIN tool_calls
            /\ \A i \in DOMAIN tool_calls :
                  tool_calls[i].id # lastOp'.cid => tool_calls'[i] = tool_calls[i]
            /\ UNCHANGED <<sessions, agents, state_snapshots>>
            /\ lastOp'.op = "log_tool_call_end" => UNCHANGED modifications
       /\ \A i \in DOMAIN tool_calls :
            (tool_calls[i].status = "started" /\ ~(EndStep /\ lastOp'.cid = tool_calls[i].id))
                => tool_calls'[i].status = "started"]_vars

\* one call has been ended while another row, never ended, is still started
C5_OtherRowStarted ==
    /\ lastOp.op = "log_tool_call_end"
    /\ lastOp.ok
    /\ lastOp.existed
    /\ CallRow(tool_calls, lastOp.cid).status = "completed"
    /\ \E i \in DOMAIN tool_calls :
          tool_calls[i].id # lastOp.cid /\ tool_calls[i].status = "started"
    /\ sessions # <<>>
    /\ agents # <<>>

\* C6: log_tool_call_end with a null call_id, log_tool_call_end with a call_id that
\* matches no row, and log_agent_end with an agent_id that matches no row return
\* without raising and leave every row of the store unchanged.
C6_OrphanEnd ==
    [][(\/ /\ lastOp'.op = "log_tool_call_end"
           /\ RowsWithId(tool_calls, lastOp'.cid) = {}
        \/ /\ lastOp'.op = "log_agent_end"
           /\ \A i \in DOMAIN agents : agents[i].agent_id # lastOp'.aid)
       => /\ UNCHANGED storeVars
          /\ ~lastOp'.raised]_vars

\* log_agent_end has been called for an agent without a row while another agent is
\* running and tool calls are started
C6_UnknownAgentEnded ==
    /\ lastOp.op = "log_agent_end"
    /\ lastOp.ok
    /\ ~lastOp.existed
    /\ \E i \in DOMAIN agents : agents[i].status = "running"
    /\ \E i \in DOMAIN tool_calls : tool_calls[i].status = "started"

\* a compressible field: exactly one of its two columns holds a value, and the flag
\* says which
FieldOk(json_value, compressed_value, flag) ==
    /\ (json_value # None) # (compressed_value # None)
    /\ (flag # 0) <=> (compressed_value # None)

\* C7: for every compressible field of every row (parameters and result of a tool call,
\* state of a snapshot) exactly one of its json column and its compressed column is
\* populated, and is_compressed is true exactly when it is the compressed one.  The
\* result is a field of the rows that log_tool_call_end has written.
C7_OneColumn ==
    /\ \A i \in DOMAIN tool_calls :
          /\ FieldOk(tool_calls[i].parameters_json, tool_calls[i].parameters_compressed,
                     tool_calls[i].is_compressed)
          /\ tool_calls[i].status # "started" =>
                FieldOk(tool_calls[i].result_json, tool_calls[i].result_compressed,
                        tool_calls[i].is_compressed)
    /\ \A i \in DOMAIN state_snapshots :
          FieldOk(state_snapshots[i].state_json, state_snapshots[i].state_compressed,
                  state_snapshots[i].is_compressed)

\* C8: after log_tool_call_start(tool, P) has returned id and log_tool_call_end(id, R)
\* has completed, get_data_from_row over the result columns of the row returns R and
\* over its parameters columns returns P, for P and R on either side of the threshold.
C8_Extract ==
    \A i \in DOMAIN tool_calls :
        given[i].result # Unset =>
            /\ get_data_from_row(tool_calls[i], "result_json", "result_compressed",
                                 "is_compressed") = given[i].result
            /\ get_data_from_row(tool_calls[i], "parameters_json", "parameters_compressed",
                                 "is_compressed") = given[i].parameters

----------------------------------------------------------------------------
(* Properties of the sessions rows *)

\* the operations that run the INSERT OR IGNORE of log_session_start
SessionStarters == {"log_session_start", "log_agent_start", "log_tool_call_start", "pretooluse"}

\* the positions of the sessions rows of a session_id
SessionRows(tbl, id) == {i \in DOMAIN tbl : tbl[i].session_id = id}

\* C1: in every reachable state there is at most one sessions row per session_id, and
\* log_session_start, called directly or through log_agent_start, log_tool_call_start or
\* the pre-call hook, leaves exactly one row of its session id: the one that was there,
\* or the one it inserts.
C1_OneSessionRow ==
    /\ \A i, j \in DOMAIN sessions :
          sessions[i].session_id = sessions[j].session_id => i = j
    /\ (/\ lastOp.op \in SessionStarters
        /\ lastOp.had_session \/ (lastOp.ok /\ lastOp.op # "pretooluse"))
       => Cardinality(SessionRows(sessions, lastOp.sid)) = 1

\* the session of a repeated start is there once, beside the row of another session
C1_RepeatedStart ==
    /\ lastOp.op \in SessionStarters \ {"log_session_start"}
    /\ lastOp.ok
    /\ lastOp.had_session
    /\ Cardinality(SessionRows(sessions, lastOp.sid)) = 1
    /\ Len(sessions) = 2

----------------------------------------------------------------------------
(* Properties of concurrent session starts *)

\* both processes have returned from log_session_start
BothDone == \A p \in Procs : procs[p].pc = "done"

\* C2: two processes call log_session_start("S1", ...) concurrently against one store;
\* under every interleaving of their connect, provision, insert and commit steps, the
\* store file there or not at the start, exactly one row with session_id "S1" exists
\* once both have completed.
C2_OneRowAfterBoth ==
    BothDone => Cardinality(SessionRows(sessions, "S1")) = 1

\* both have completed after both found the store file missing and provisioned it
C2_BothProvisioned ==
    /\ BothDone
    /\ \A p \in Procs : procs[p].provisioned
    /\ Cardinality(SessionRows(sessions, "S1")) = 1

----------------------------------------------------------------------------
(* The session tracker of one process, while the environment changes under it:
   os.environ, the session markers of ~/.claude/session-env and the task output
   files of /tmp/claude are written by the host between two calls *)

\* resolved, after get_current_session() returned id
Resolved(h, id) == IF h = <<>> THEN <<id>> ELSE h

\* what a session tracker call leaves in lastOp
TrackerOp(op, sid, aid) == OpRecord(op, sid, aid, NullInt, NullStr, TRUE, FALSE, None)

AGetCurrentSession(gen) ==
    LET r == get_current_session(ctx, env, gen)
    IN /\ ctx' = r.ctx
       /\ resolved' = Resolved(resolved, r.id)
       /\ lastOp' = TrackerOp("get_current_session", r.id, NullStr)
       /\ UNCHANGED <<storeVars, given, env>>

AGetCurrentAgent ==
    LET r == get_current_agent(ctx, env)
    IN /\ ctx' = r.ctx
       /\ lastOp' = TrackerOp("get_current_agent", NullStr, r.id)
       /\ UNCHANGED <<storeVars, given, env, resolved>>

APushAgent(agent_id) ==
    /\ Len(ctx.agent_stack) < MaxStack
    /\ ctx' = push_agent(ctx, agent_id)
    /\ lastOp' = TrackerOp("push_agent", NullStr, agent_id)
    /\ UNCHANGED <<storeVars, given, env, resolved>>

APopAgent ==
    LET r == pop_agent(ctx)
    IN /\ ctx' = r.ctx
       /\ lastOp' = TrackerOp("pop_agent", NullStr, r.id)
       /\ UNCHANGED <<storeVars, given, env, resolved>>

ASetSession(session_id) ==
    /\ ctx' = set_session(ctx, session_id)
    /\ resolved' = <<>>
    /\ lastOp' = TrackerOp("set_session", session_id, NullStr)
    /\ UNCHANGED <<storeVars, given, env>>

ASetAgent(agent_id) ==
    /\ ctx' = set_agent(ctx, agent_id)
    /\ lastOp' = TrackerOp("set_agent", NullStr, agent_id)
    /\ UNCHANGED <<storeVars, given, env, resolved>>

AResetContext ==
    /\ ctx' = reset_context(ctx)
    /\ resolved' = <<>>
    /\ lastOp' = TrackerOp("reset_context", NullStr, NullStr)
    /\ UNCHANGED <<storeVars, given, env>>

\* the host sets or unsets CLAUDE_SESSION_ID
SetEnvSessionId(session_id) ==
    /\ env' = [env EXCEPT !.CLAUDE_SESSION_ID = session_id]
    /\ lastOp' = TrackerOp("environ", NullStr, NullStr)
    /\ UNCHANGED <<storeVars, given, ctx, resolved>>

\* the host sets or unsets CLAUDE_AGENT_ID
SetEnvAgentId(agent_id) ==
    /\ env' = [env EXCEPT !.CLAUDE_AGENT_ID = agent_id]
    /\ lastOp' = TrackerOp("environ", NullStr, NullStr)
    /\ UNCHANGED <<storeVars, given, ctx, resolved>>

\* the files session-* of ~/.claude/session-env become `files`
WriteSessionMarkers(files) ==
    /\ env' = [env EXCEPT !.session_files = files]
    /\ lastOp' = TrackerOp("environ", NullStr, NullStr)
    /\ UNCHANGED <<storeVars, given, ctx, resolved>>

\* the directories /tmp/claude/*/tasks become `task_dirs`
WriteTaskOutputs(task_dirs) ==
    /\ env' = [env EXCEPT !.task_dirs = task_dirs]
    /\ lastOp' = TrackerOp("environ", NullStr, NullStr)
    /\ UNCHANGED <<storeVars, given, ctx, resolved>>

EnvSessionIds == {NullStr, "S2"}
EnvAgentIds == {NullStr, "A9"}
StackAgentIds == {"A1", "A2"}

\* session markers: none; session-M1; session-M1 and, newer, a file named "session-"
MarkerSets ==
    {<<>>,
     <<[id |-> "M1", mtime |-> 1]>>,
     <<[id |-> "M1", mtime |-> 1], [id |-> "", mtime |-> 2]>>}

\* task directories: none; an empty one before one holding T1.output
\* an output file of a task directory
OutputFile(stem, mtime) == [stem |-> stem, mtime |-> mtime]

\* task directories: none; an empty one, newer than one with T1.output; a directory
\* with the newest file T1.output, older than a directory with T2.output; one
\* directory where glob lists T1.output before the newer T2.output
TaskDirSets ==
    {<<>>,
     <<[mtime |-> 2, files |-> <<>>], [mtime |-> 1, files |-> <<OutputFile("T1", 1)>>]>>,
     <<[mtime |-> 1, files |-> <<OutputFile("T1", 3)>>],
       [mtime |-> 2, files |-> <<OutputFile("T2", 1)>>]>>,
     <<[mtime |-> 3, files |-> <<OutputFile("T1", 1), OutputFile("T2", 2)>>]>>}

TrackerOthers == <<cIn, cOut, db, procs>>

(* Session resolution of one process *)
SessionNext ==
    \/ \E gen \in GenIds : AGetCurrentSession(gen) /\ UNCHANGED TrackerOthers
    \/ \E s \in EnvSessionIds : SetEnvSessionId(s) /\ UNCHANGED TrackerOthers
    \/ \E files \in MarkerSets : WriteSessionMarkers(files) /\ UNCHANGED TrackerOthers
    \/ \E gen \in GenIds :
          /\ ACreateSnapshot("checkpoint", SmallPayload, NullStr, NullStr, gen, FALSE)
          /\ resolved' = Resolved(resolved, lastOp'.sid)
          /\ UNCHANGED <<env, TrackerOthers>>

SpecSession == CallsInit /\ [][SessionNext]_vars

(* Agent resolution of one process *)
AgentNext ==
    \/ AGetCurrentAgent /\ UNCHANGED TrackerOthers
    \/ \E a \in StackAgentIds : APushAgent(a) /\ UNCHANGED TrackerOthers
    \/ APopAgent /\ UNCHANGED TrackerOthers
    \/ ASetAgent("A1") /\ UNCHANGED TrackerOthers
    \/ ASetSession("S1") /\ UNCHANGED TrackerOthers
    \/ AResetContext /\ UNCHANGED TrackerOthers
    \/ \E gen \in GenIds : AGetCurrentSession(gen) /\ UNCHANGED TrackerOthers
    \/ \E a \in EnvAgentIds : SetEnvAgentId(a) /\ UNCHANGED TrackerOthers
    \/ \E task_dirs \in TaskDirSets : WriteTaskOutputs(task_dirs) /\ UNCHANGED TrackerOthers
    \/ /\ Len(tool_calls) < MaxAux
       /\ ALogToolCallStart(PyStr(<<"Bash">>), SmallPayload, NullStr, "S1", "G1", FALSE, FALSE)
       /\ UNCHANGED Others

SpecAgent == CallsInit /\ [][AgentNext]_vars

----------------------------------------------------------------------------
(* Claims on the session resolver *)

C14_SameSessionId ==
    /\ (lastOp.op \in {"get_current_session", "create_snapshot"} /\ resolved # <<>>)
       => lastOp.sid = resolved[1]
    /\ \A i \in DOMAIN state_snapshots : state_snapshots[i].session_id = resolved[1]

\* a generated id was returned again after CLAUDE_SESSION_ID was set
C14_CachedOverEnv ==
    /\ lastOp.op = "get_current_session"
    /\ resolved = <<"G1">>
    /\ lastOp.sid = "G1"
    /\ env.CLAUDE_SESSION_ID = "S2"

----------------------------------------------------------------------------
(* Claims on the agent resolver *)

\* the top of the tracker's agent stack, None when it is empty
StackTop(c) == IF c.agent_stack = <<>> THEN NullStr ELSE c.agent_stack[Len(c.agent_stack)]

\* the first candidate that is available, None when none is
FirstAvailable(cands) ==
    IF \E i \in DOMAIN cands : StrTruthy(cands[i])
    THEN cands[CHOOSE i \in DOMAIN cands :
                 /\ StrTruthy(cands[i])
                 /\ \A j \in 1..(i - 1) : ~StrTruthy(cands[j])]
    ELSE NullStr

\* the last row of tool_calls
LastCall(tbl) == tbl[Len(tbl)]

\* env, stack and task output files give no agent
NoAgentSignal ==
    /\ ~StrTruthy(env.CLAUDE_AGENT_ID)
    /\ ctx.agent_stack = <<>>
    /\ parse_agent_from_environment(env.task_dirs) = NullStr

\* C15: get_current_agent() returns the first available of CLAUDE_AGENT_ID, the top
\* of the agent stack, the cached agent id and the id inferred from the task output
\* files, and None when none is available.
C15_Precedence ==
    [][lastOp'.op = "get_current_agent"
       => lastOp'.aid = FirstAvailable(<<env.CLAUDE_AGENT_ID, StackTop(ctx), ctx.agent_id,
                                         parse_agent_from_environment(env.task_dirs)>>)]_vars

\* the environment's id was returned over a non-empty stack
C15_EnvOverStack ==
    /\ lastOp.op = "get_current_agent"
    /\ lastOp.aid = "A9"
    /\ env.CLAUDE_AGENT_ID = "A9"
    /\ ctx.agent_stack # <<>>
    /\ ctx.agent_id # "A9"

\* C16 as stated: with no CLAUDE_AGENT_ID, an empty stack and no task output file,
\* get_current_agent() returns None and a tool call logged then has a null agent_id.
C16_NullWithoutContext ==
    [][(lastOp'.op \in {"get_current_agent", "log_tool_call_start"} /\ NoAgentSignal)
       => /\ lastOp'.aid = NullStr
          /\ lastOp'.op = "log_tool_call_start" => LastCall(tool_calls').agent_id = NullStr]_vars

\* C16, amended: with no CLAUDE_AGENT_ID, an empty stack, no task output file and no
\* cached agent id, get_current_agent() returns None and a tool call logged then has
\* a null agent_id; and the pop_agent() that empties the stack clears the cached id.
C16_NullWithoutCachedContext ==
    [][/\ (/\ lastOp'.op \in {"get_current_agent", "log_tool_call_start"}
           /\ NoAgentSignal
           /\ ~StrTruthy(ctx.agent_id))
          => /\ lastOp'.aid = NullStr
             /\ ctx'.agent_id = NullStr
             /\ lastOp'.op = "log_tool_call_start"
                => LastCall(tool_calls').agent_id = NullStr
       /\ (lastOp'.op = "pop_agent" /\ ctx.agent_stack # <<>> /\ ctx'.agent_stack = <<>>)
          => ctx'.agent_id = NullStr]_vars

\* a tool call of the main session was logged with a null agent_id
C16_MainSessionCall ==
    /\ lastOp.op = "log_tool_call_start"
    /\ lastOp.aid = NullStr
    /\ LastCall(tool_calls).agent_id = NullStr
    /\ ctx.agent_stack = <<>>
    /\ ctx.agent_id = NullStr
    /\ ctx.session_id # NullStr

\* C17: pop_agent() returns the most recently pushed agent id not yet popped and
\* sets the cached agent id to the new top of the stack, None when the stack became
\* empty; on an empty stack it returns None.  push_agent() puts its id on top.
C17_Lifo ==
    [][/\ lastOp'.op = "pop_agent"
          => IF ctx.agent_stack # <<>>
             THEN /\ lastOp'.aid = ctx.agent_stack[Len(ctx.agent_stack)]
                  /\ Append(ctx'.agent_stack, lastOp'.aid) = ctx.agent_stack
                  /\ ctx'.agent_id = StackTop(ctx')
             ELSE /\ lastOp'.aid = NullStr
                  /\ ctx'.agent_stack = <<>>
       /\ lastOp'.op = "push_agent"
          => ctx'.agent_stack = Append(ctx.agent_stack, lastOp'.aid)]_vars

\* the inner of two nested agents was popped
C17_InnerPopped ==
    /\ lastOp.op = "pop_agent"
    /\ lastOp.aid = "A2"
    /\ ctx.agent_stack = <<"A1">>
    /\ ctx.agent_id = "A1"

\* C18 as stated: only push_agent() and pop_agent() change the agent stack and the
\* cached agent id, and no operation besides the memoizing get_current_session()
\* changes the cached session id.
C18_OnlyPushPop ==
    [][/\ lastOp'.op \notin {"push_agent", "pop_agent"}
          => /\ ctx'.agent_stack = ctx.agent_stack
             /\ ctx'.agent_id = ctx.agent_id
       /\ lastOp'.op # "get_current_session" => ctx'.session_id = ctx.session_id]_vars

\* C18, amended: the agent stack changes only in push_agent(), pop_agent() and
\* reset_context(); the cached agent id only in those, in set_agent(), and when
\* get_current_agent() memoizes the id it inferred from the task output files;
\* the cached session id only in get_current_session(), set_session() and
\* reset_context().
C18_Mutators ==
    [][/\ ctx'.agent_stack # ctx.agent_stack
          => lastOp'.op \in {"push_agent", "pop_agent", "reset_context"}
       /\ ctx'.agent_id # ctx.agent_id
          => \/ lastOp'.op \in {"push_agent", "pop_agent", "set_agent", "reset_context"}
             \/ /\ lastOp'.op \in {"get_current_agent", "log_tool_call_start"}
                /\ ~StrTruthy(env.CLAUDE_AGENT_ID) /\ ctx.agent_stack = <<>>
                /\ ~StrTruthy(ctx.agent_id)
                /\ ctx'.agent_id = parse_agent_from_environment(env.task_dirs)
                /\ ctx'.agent_id = lastOp'.aid
       /\ ctx'.session_id # ctx.session_id
          => lastOp'.op \in {"get_current_session", "set_session", "reset_context"}]_vars

\* get_current_session() ran while two agents were nested
C18_ResolvedWhileNested ==
    /\ lastOp.op = "get_current_session"
    /\ ctx.session_id = "G1"
    /\ Len(ctx.agent_stack) = 2
    /\ ctx.agent_id = StackTop(ctx)

----------------------------------------------------------------------------
(* Agent rows: log_agent_start and log_agent_end of two agents in two sessions *)

AgentStatuses == {"completed", "failed"}

AgentRowsNext ==
    \/ \E aid \in StackAgentIds, sid \in SessionIds \cup {NullStr}, gen \in GenIds,
          fail1 \in BOOLEAN, fail2 \in BOOLEAN :
          ALogAgentStart(aid, sid, gen, fail1, fail2) /\ UNCHANGED Others
    \/ \E aid \in StackAgentIds, status \in AgentStatuses, now \in Timestamps,
          fail \in BOOLEAN :
          ALogAgentEnd(aid, status, now, fail) /\ UNCHANGED Others

SpecAgentRows == CallsInit /\ [][AgentRowsNext]_vars

\* the rows of agent_id in the agents table
AgentRows(tbl, id) == {i \in DOMAIN tbl : tbl[i].agent_id = id}

\* C19: after a log_agent_start(agent_id, ..., session_id) that the store accepted,
\* the owning session has a row and agent_id has a row; a row with status running is
\* inserted only when agent_id had none, and an existing row of agent_id, whatever
\* its status and its session, is left as it was.
C19_AgentStart ==
    [][(lastOp'.op = "log_agent_start" /\ lastOp'.ok)
       => /\ \E i \in DOMAIN sessions' : sessions'[i].session_id = lastOp'.sid
          /\ AgentRows(agents', lastOp'.aid) # {}
          /\ IF AgentRows(agents, lastOp'.aid) = {}
             THEN /\ Len(agents') = Len(agents) + 1
                  /\ SubSeq(agents', 1, Len(agents)) = agents
                  /\ agents'[Len(agents')].agent_id = lastOp'.aid
                  /\ agents'[Len(agents')].session_id = lastOp'.sid
                  /\ agents'[Len(agents')].status = "running"
             ELSE agents' = agents]_vars

\* an agent that had ended in another session was started again
C19_EndedAgentRestarted ==
    /\ lastOp.op = "log_agent_start"
    /\ lastOp.ok
    /\ lastOp.existed
    /\ \E i \in DOMAIN agents :
          /\ agents[i].agent_id = lastOp.aid
          /\ agents[i].status = "failed"
          /\ agents[i].session_id # lastOp.sid

\* C20: the status of an agent row only moves from running to completed or from
\* running to failed, under any sequence of log_agent_start and log_agent_end, and
\* is always one of running, completed, failed.
C20_StatusMoves ==
    [][\A i \in DOMAIN agents :
          /\ i \in DOMAIN agents'
          /\ agents'[i].agent_id = agents[i].agent_id
          /\ agents'[i].status \in {"running", "completed", "failed"}
          /\ agents'[i].status # agents[i].status
             => /\ agents[i].status = "running"
                /\ agents'[i].status \in {"completed", "failed"}]_vars

\* a running agent was ended as failed
C20_RunningFailed ==
    /\ lastOp.op = "log_agent_end"
    /\ lastOp.ok
    /\ lastOp.status = "failed"
    /\ \E i \in DOMAIN agents :
          agents[i].agent_id = lastOp.aid /\ agents[i].status = "failed"

----------------------------------------------------------------------------
(* Failures: each of the eight logger operations, with and without an error in its
   try block *)

FailuresNext ==
    \/ \E fail \in BOOLEAN :
          ALogSessionStart("S1", NullStr, "G1", fail) /\ UNCHANGED Others
    \/ \E fail \in BOOLEAN :
          ALogSessionEnd("S1", "G1", 1, fail) /\ UNCHANGED Others
    \/ \E fail1 \in BOOLEAN, fail2 \in BOOLEAN :
          ALogAgentStart("A1", "S1", "G1", fail1, fail2) /\ UNCHANGED Others
    \/ \E fail \in BOOLEAN :
          ALogAgentEnd("A1", "completed", 1, fail) /\ UNCHANGED Others
    \/ \E fail1 \in BOOLEAN, fail2 \in BOOLEAN :
          ALogToolCallStart(PyStr(<<"Bash">>), SmallPayload, NullStr, "S1", "G1",
                            fail1, fail2)
          /\ UNCHANGED Others
    \/ \E cid \in 1..MaxCalls, fail \in BOOLEAN :
          ALogToolCallEnd(cid, SmallPayload, NullInt, "completed", None, 1, fail)
          /\ UNCHANGED Others
    \/ \E fail \in BOOLEAN :
          ALogModification(1, "file_edit", PyStr(<<"a">>), None, PyStr(<<"a">>), "A1", fail)
          /\ UNCHANGED Others
    \/ \E fail \in BOOLEAN :
          ACreateSnapshot("checkpoint", SmallPayload, "A1", "S1", "G1", fail)
          /\ UNCHANGED Others

SpecFailures == CallsInit /\ [][FailuresNext]_vars

LoggerOps ==
    {"log_session_start", "log_session_end", "log_agent_start", "log_agent_end",
     "log_tool_call_start", "log_tool_call_end", "log_modification", "create_snapshot"}

\* what the operation recorded in r returned to its caller
Returned(r) ==
    IF r.op = "log_session_start" THEN [str |-> r.sid, int |-> NullInt]
    ELSE IF r.op = "log_agent_start" THEN [str |-> r.aid, int |-> NullInt]
    ELSE IF r.op \in {"log_tool_call_start", "create_snapshot"}
         THEN [str |-> NullStr, int |-> r.cid]
    ELSE [str |-> NullStr, int |-> NullInt]

\* C11: a logger operation during which the storage gateway or the compressor fails
\* raises nothing, returns None, and leaves the rows of every table as they were.
C11_FailureContained ==
    [][(lastOp'.op \in LoggerOps /\ ~lastOp'.ok)
       => /\ ~lastOp'.raised
          /\ Returned(lastOp') = [str |-> NullStr, int |-> NullInt]
          /\ storeVars' = storeVars]_vars

\* a failed log_tool_call_start returned None and left the store empty
C11_CallStartFailed ==
    /\ lastOp.op = "log_tool_call_start"
    /\ ~lastOp.ok
    /\ lastOp.cid = NullInt
    /\ sessions = <<>>
    /\ tool_calls = <<>>

----------------------------------------------------------------------------
(* The two hook scripts, on every path: import error, malformed event, logging
   with and without storage errors *)

HookNames == {"pretooluse", "posttooluse"}

\* a post-call event of tool_name with the given parameters and error
PostEventWith(tool_name, parameters, error) ==
    PyDict(<<[k |-> <<"tool_name">>, x |-> PyStr(<<tool_name>>)],
             [k |-> <<"parameters">>, x |-> parameters],
             [k |-> <<"result">>, x |-> SmallPayload],
             [k |-> <<"error">>, x |-> error],
             [k |-> <<"call_id">>, x |-> PyInt(1)]>>)

\* parameters of a write-tracked tool: file_path "a" and the given further items
FileParameters(items) == PyDict(<<[k |-> <<"file_path">>, x |-> PyStr(<<"a">>)]>> \o items)

\* Write and Edit with and without an error, a Write of an empty file, a Write of a
\* content that is no text, a Write without file_path, an Edit that inserts (no
\* old_string), a MultiEdit, a Write whose event has no call_id, a Write whose error
\* is the empty text
HookWriteEvents ==
    {PostEvent("Write", SmallPayload, None, None),
     PostEventWith("Write", WriteParameters, PyStr(<<>>)),
     PostEventWith("Write", WriteParameters, None),
     PostEventWith("Write", WriteParameters, PyStr(<<"a">>)),
     PostEventWith("Write", FileParameters(<<[k |-> <<"content">>, x |-> PyStr(<<>>)]>>), None),
     PostEventWith("Write", FileParameters(<<[k |-> <<"content">>, x |-> PyInt(1)]>>), None),
     PostEventWith("Write", PyDict(<<[k |-> <<"content">>, x |-> PyStr(<<"a">>)]>>), None),
     PostEventWith("Edit", FileParameters(<<[k |-> <<"old_string">>, x |-> PyStr(<<"a">>)],
                                            [k |-> <<"new_string">>, x |-> PyStr(<<"1">>)]>>), None),
     PostEventWith("Edit", FileParameters(<<[k |-> <<"new_string">>, x |-> PyStr(<<"1">>)]>>), None),
     PostEventWith("MultiEdit", FileParameters(<<>>), None)}

HookPostEvents == PostEvents \cup {PostEvent("Write", SmallPayload, None, PyInt(1))}

(* The post-call hook on the events of write-tracked tools, beside the tool calls
   they close *)
WritesNext ==
    \/ ALogToolCallStart(PyStr(<<"Write">>), WriteParameters, NullStr, "S1", "G1", FALSE, FALSE)
       /\ UNCHANGED Others
    \/ \E ev \in PostEvents \cup HookWriteEvents, now \in Timestamps, fail2 \in BOOLEAN :
          PostToolUse(ev, now, FALSE, fail2) /\ UNCHANGED Others

SpecWrites == CallsInit /\ [][WritesNext]_vars

HooksNext ==
    \/ \E hook \in HookNames : HookImportError(hook) /\ UNCHANGED Others
    \/ \E ev \in PreEvents, gen \in GenIds, fail1 \in BOOLEAN, fail3 \in BOOLEAN :
          PreToolUse(ev, gen, fail1, fail1, fail3) /\ UNCHANGED Others
    \/ \E ev \in HookPostEvents, now \in Timestamps, fail1 \in BOOLEAN, fail2 \in BOOLEAN :
          PostToolUse(ev, now, fail1, fail2) /\ UNCHANGED Others

SpecHooks == CallsInit /\ [][HooksNext]_vars

\* C12: every run of the pre-call and of the post-call hook ends with exit status 0:
\* after logging, after a malformed or missing event, after a failed import and
\* after a storage error inside the logger.
C12_ExitZero == lastOp.op \in HookNames => lastOp.exit = 0

\* a post-call hook met a malformed event, printed its message and exited 0
C12_MalformedExitZero ==
    /\ lastOp.op = "posttooluse"
    /\ ~lastOp.ok
    /\ lastOp.out = SystemMessage
    /\ lastOp.exit = 0
    /\ tool_calls # <<>>

----------------------------------------------------------------------------
(* Claims on the end of a session *)

\* C21: a log_session_end(session_id) that the store accepted sets ended_at on the
\* sessions row of that id and changes no other column, no other row and no other
\* table; when the id has no row, no row is created and every table is unchanged.
C21_SessionEnd ==
    [][(lastOp'.op = "log_session_end" /\ lastOp'.ok)
       => /\ <<agents', tool_calls', modifications', state_snapshots'>>
                = <<agents, tool_calls, modifications, state_snapshots>>
          /\ DOMAIN sessions' = DOMAIN sessions
          /\ \A i \in DOMAIN sessions :
                IF sessions[i].session_id = lastOp'.sid
                THEN /\ sessions'[i].ended_at # NullInt
                     /\ sessions'[i] = [sessions[i] EXCEPT !.ended_at = sessions'[i].ended_at]
                ELSE sessions'[i] = sessions[i]
          /\ SessionRows(sessions, lastOp'.sid) = {} => sessions' = sessions]_vars

\* a session was ended while another one stays open
C21_OneOfTwoEnded ==
    /\ lastOp.op = "log_session_end"
    /\ lastOp.ok
    /\ \E i, j \in DOMAIN sessions :
          /\ sessions[i].session_id = lastOp.sid
          /\ sessions[i].ended_at # NullInt
          /\ sessions[j].session_id # lastOp.sid
          /\ sessions[j].ended_at = NullInt

----------------------------------------------------------------------------
(* Claims on the modifications a post-call event leaves *)

\* a field of the event of the hook run recorded in r
EventField(r, key, default) == EventGet(r.event, key, default)

\* the event names a write-tracked tool and its parameters a target file
EventTracked(r) ==
    /\ EventField(r, <<"tool_name">>, None) \in WriteTools
    /\ EventField(r, <<"parameters">>, None).t = "dict"
    /\ Truthy(DictGet(EventField(r, <<"parameters">>, None), <<"file_path">>, None))

\* the before and after content the event carries for its tool
EventContents(r) ==
    LET tool_name == EventField(r, <<"tool_name">>, None)
        parameters == EventField(r, <<"parameters">>, PyDict(<<>>))
    IN IF tool_name = PyStr(<<"Write">>)
       THEN [old |-> None, new |-> DictGet(parameters, <<"content">>, PyStr(<<>>))]
       ELSE IF tool_name = PyStr(<<"Edit">>)
       THEN [old |-> DictGet(parameters, <<"old_string">>, PyStr(<<>>)),
             new |-> DictGet(parameters, <<"new_string">>, PyStr(<<>>))]
       ELSE [old |-> PyStr(JsonDumpsDefault(DictGet(parameters, <<"edits">>, PyList(<<>>)))),
             new |-> PyStr(<<"[multiple edits]">>)]

\* tbl2 is tbl1 and one more row
OneRowAdded(tbl1, tbl2) == Len(tbl2) = Len(tbl1) + 1 /\ SubSeq(tbl2, 1, Len(tbl1)) = tbl1

\* C22 as stated: a post-call event that names Write, Edit or MultiEdit and a target
\* file leaves exactly one more modifications row (the store accepting the insert);
\* an event of any other tool leaves none.
C22_OneModificationPerWrite ==
    [][(lastOp'.op = "posttooluse" /\ lastOp'.event.t = "dict" /\ ~lastOp'.faults[2])
       => /\ EventTracked(lastOp') => OneRowAdded(modifications, modifications')
          /\ EventField(lastOp', <<"tool_name">>, None) \notin WriteTools
             => modifications' = modifications]_vars

\* C22, amended: a post-call event leaves exactly one more modifications row when it
\* names Write, Edit or MultiEdit and a target file, reports no error, carries
\* contents that are text and the store accepts the insert; every other event,
\* malformed ones included, leaves the modifications as they were.
C22_OneModificationPerCompletedWrite ==
    [][lastOp'.op = "posttooluse"
       => IF /\ lastOp'.event.t = "dict"
             /\ EventTracked(lastOp')
             /\ ~Truthy(EventField(lastOp', <<"error">>, None))
             /\ ~ModificationRaises(EventContents(lastOp').old, EventContents(lastOp').new)
             /\ ~lastOp'.faults[2]
          THEN /\ OneRowAdded(modifications, modifications')
               /\ modifications'[Len(modifications')].file_path
                     = DictGet(EventField(lastOp', <<"parameters">>, None), <<"file_path">>, None)
          ELSE modifications' = modifications]_vars

\* a MultiEdit event left its one row
C22_MultiEditTracked ==
    /\ lastOp.op = "posttooluse"
    /\ EventField(lastOp, <<"tool_name">>, None) = PyStr(<<"MultiEdit">>)
    /\ Len(modifications) = 1
    /\ modifications[1].modification_type = "file_multi_edit"


\* C23: the row log_modification writes has old_content_hash set exactly when an old
\* content was given and new_content_hash exactly when a new content was given,
\* the empty string being a content; it has the compressed diff exactly when both
\* were given; and the hash stored is the digest of the content given.
C23_HashesAndDiff ==
    [][(lastOp'.op = "posttooluse" /\ OneRowAdded(modifications, modifications'))
       => LET row == modifications'[Len(modifications')]
              c == EventContents(lastOp')
          IN /\ row.old_content_hash # None <=> c.old # None
             /\ row.new_content_hash # None <=> c.new # None
             /\ row.diff_compressed # None <=> (c.old # None /\ c.new # None)
             /\ c.old # None => row.old_content_hash = Sha256Hex(c.old)
             /\ c.new # None => row.new_content_hash = Sha256Hex(c.new)]_vars

\* an Edit left a row with both hashes and the diff
C23_EditRow ==
    /\ lastOp.op = "posttooluse"
    /\ Len(modifications) = 1
    /\ modifications[1].modification_type = "file_edit"
    /\ modifications[1].old_content_hash = Sha256Hex(PyStr(<<"a">>))
    /\ modifications[1].new_content_hash = Sha256Hex(PyStr(<<"1">>))
    /\ modifications[1].diff_compressed # None

----------------------------------------------------------------------------
(* Rows: the eight logger operations and the two hooks over one store *)

RowsNext ==
    \/ ALogSessionStart("S1", NullStr, "G1", FALSE) /\ UNCHANGED Others
    \/ ALogSessionEnd("S1", "G1", 1, FALSE) /\ UNCHANGED Others
    \/ ALogAgentStart("A1", "S1", "G1", FALSE, FALSE) /\ UNCHANGED Others
    \/ ALogAgentEnd("A1", "completed", 1, FALSE) /\ UNCHANGED Others
    \/ ALogToolCallStart(PyStr(<<"Write">>), SmallPayload, NullStr, "S1", "G1", FALSE, FALSE)
          /\ UNCHANGED Others
    \/ ALogToolCallEnd(1, SmallPayload, NullInt, "completed", None, 1, FALSE)
          /\ UNCHANGED Others
    \/ ALogModification(1, "file_edit", PyStr(<<"a">>), None, PyStr(<<"a">>), "A1", FALSE)
          /\ UNCHANGED Others
    \/ ACreateSnapshot("checkpoint", SmallPayload, "A1", "S1", "G1", FALSE)
          /\ UNCHANGED Others
    \/ \E ev \in PreEvents : PreToolUse(ev, "S1", FALSE, FALSE, FALSE) /\ UNCHANGED Others
    \/ PostToolUse(PostEvent("Write", SmallPayload, None, PyInt(1)), 1, FALSE, FALSE)
          /\ UNCHANGED Others

SpecRows == CallsInit /\ [][RowsNext]_vars

----------------------------------------------------------------------------
(* Claims on rows that stay *)

\* every row of tbl1 is in tbl2, unchanged and in its place
RowsKept(tbl1, tbl2) == \A i \in DOMAIN tbl1 : i \in DOMAIN tbl2 /\ tbl2[i] = tbl1[i]

\* C24: no operation of the logger or of the hooks changes or deletes a row of
\* modifications or of state_snapshots once it is inserted, and none deletes a row
\* of sessions.
C24_RowsStay ==
    [][/\ RowsKept(modifications, modifications')
       /\ RowsKept(state_snapshots, state_snapshots')
       /\ \A i \in DOMAIN sessions :
             /\ i \in DOMAIN sessions'
             /\ sessions'[i].session_id = sessions[i].session_id]_vars

\* a session was ended and a tool call closed after a snapshot had been taken
C24_EndedBesideSnapshot ==
    /\ lastOp.op = "log_session_end"
    /\ lastOp.ok
    /\ lastOp.had_session
    /\ state_snapshots # <<>>
    /\ \E i \in DOMAIN tool_calls : tool_calls[i].status = "completed"

----------------------------------------------------------------------------
(* Blobs: decompress_data and get_data_from_row on rows as a store can hold them,
   their blobs sound or not *)

\* a BLOB column: NULL, raw bytes that are no gzip stream, and gzip streams
Blobs ==
    {None, PyBytes(GzipCompress(<<"1">>))} \cup BytesValues
        \cup {PyBytes(GzipCompress(b.v)) : b \in BytesValues}
\* a TEXT column: NULL, a JSON text, and a text that is no JSON
JsonColumns == {None, PyStr(<<"1">>), PyStr(<<"X">>)}

\* a row of tool_calls as view_tool_call reads it
BlobRow == [parameters_json |-> cIn.json, parameters_compressed |-> cIn.blob,
            is_compressed |-> cIn.flag]

BlobInit ==
    /\ StoreInit
    /\ env = DefaultEnv
    /\ db = [exists |-> FALSE]
    /\ procs = <<>>
    /\ cIn \in [blob : Blobs, flag : {0, 1}, json : JsonColumns]
    /\ cOut = [op |-> "none", text |-> None, printed |-> FALSE]

\* decompress_data(blob)
BlobDecompress ==
    /\ cOut.op = "none"
    /\ cOut' = [op |-> "decompress_data", text |-> decompress_data(cIn.blob),
                printed |-> FALSE]
    /\ UNCHANGED cIn

\* get_data_from_row(row, 'parameters_json', 'parameters_compressed', 'is_compressed')
BlobExtract ==
    /\ cOut.op = "none"
    /\ cOut' = [op |-> "get_data_from_row",
                text |-> get_data_from_row(BlobRow, "parameters_json",
                                           "parameters_compressed", "is_compressed"),
                printed |-> get_data_from_row_error(BlobRow, "parameters_json",
                                                    "parameters_compressed", "is_compressed")]
    /\ UNCHANGED cIn

\* view_tool_call: the Parameters section, printed `if params`
BlobView ==
    /\ cOut.op = "none"
    /\ LET params == get_data_from_row(BlobRow, "parameters_json", "parameters_compressed",
                                       "is_compressed")
       IN cOut' = [op |-> "view_tool_call",
                   text |-> IF Truthy(params) THEN params ELSE None,
                   printed |-> get_data_from_row_error(BlobRow, "parameters_json",
                                                       "parameters_compressed",
                                                       "is_compressed")]
    /\ UNCHANGED cIn

BlobsNext ==
    \/ BlobDecompress /\ UNCHANGED CodecOthers
    \/ BlobExtract /\ UNCHANGED CodecOthers
    \/ BlobView /\ UNCHANGED CodecOthers

SpecBlobs == BlobInit /\ [][BlobsNext]_vars

\* the row is flagged compressed and its blob is no gzip stream
CorruptedField == cIn.flag # 0 /\ Truthy(cIn.blob) /\ ~GzipValid(cIn.blob.v)

\* C25: extract of a field that is flagged compressed and whose blob is not validly
\* compressed gives its caller a decode error, not None.
C25_CorruptedSurfaces ==
    (cOut.op = "get_data_from_row" /\ CorruptedField) => cOut.text.t = "raise"

\* extract of a corrupted field returned
C25_CorruptedExtracted == cOut.op = "get_data_from_row" /\ CorruptedField

DecodableBlob ==
    Truthy(cIn.blob) /\ GzipValid(cIn.blob.v) /\ Utf8Valid(GzipDecompress(cIn.blob.v))

----------------------------------------------------------------------------
(* Claims on the connection to the store *)

\* every table of the schema is in the store file
Provisioned == \A i \in DOMAIN SchemaTables : SchemaTables[i] \in db.tables

\* C27: a process that get_connection() has given a connection (it stands before its
\* first statement) has a store with every table of the schema, under every
\* interleaving of the processes' existence checks, provisioning and connect steps.
C27_ConnectedProvisioned == \A p \in Procs : procs[p].pc = "insert" => Provisioned

\* a process provisioned the missing store itself and got its connection
C27_FirstAccessProvisioned ==
    \E p \in Procs : procs[p].pc = "insert" /\ procs[p].provisioned /\ Provisioned

----------------------------------------------------------------------------
(* Claims on the agents that tool calls name *)

\* C28: each row of tool_calls with a non-null agent_id names an agent that has a row
\* in agents: the agent row is there once a tool call of the agent is logged.
C28_AgentRowOnFirstCall ==
    \A i \in DOMAIN tool_calls :
        tool_calls[i].agent_id # NullStr => AgentRows(agents, tool_calls[i].agent_id) # {}

\* a tool call was logged for an agent that get_current_agent() resolved
C28_AgentCallLogged ==
    /\ lastOp.op = "log_tool_call_start"
    /\ lastOp.cid # NullInt
    /\ lastOp.aid # NullStr

----------------------------------------------------------------------------
(* Claims on what the hooks print *)

\* the event of the post-call run recorded in r was read
EventRead(r) == r.event.t = "dict"

\* an error met the storage of the post-call run recorded in r: in the UPDATE of
\* log_tool_call_end, or in the INSERT of log_modification
PostStorageFailed(r) ==
    \/ r.faults[1] /\ Truthy(EventField(r, <<"call_id">>, None))
    \/ /\ r.faults[2]
       /\ EventTracked(r)
       /\ ~Truthy(EventField(r, <<"error">>, None))

\* C29: a run of the post-call hook prints {} when handling succeeded, and
\* the systemMessage object when handling failed, a storage error in the tool-call
\* update or in the modification insert included.
C29_Acknowledged ==
    lastOp.op = "posttooluse" =>
        IF EventRead(lastOp) /\ ~PostStorageFailed(lastOp)
        THEN lastOp.out = PyDict(<<>>)
        ELSE lastOp.out = SystemMessage

\* the UPDATE of a post-call run failed, the row stays started, and {} was printed
C29_FailedUpdateAcknowledged ==
    /\ lastOp.op = "posttooluse"
    /\ EventRead(lastOp)
    /\ lastOp.faults[1]
    /\ \E i \in DOMAIN tool_calls :
          tool_calls[i].id = lastOp.cid /\ tool_calls[i].status = "started"
    /\ lastOp.out = PyDict(<<>>)

\* the call_id of the line the pre-call run recorded in r printed
OutCallId(r) == DictGet(r.out, <<"call_id">>, None)

\* the rows of tool_calls with the id n
CallRows(tbl, n) == {i \in DOMAIN tbl : tbl[i].id = n}

\* C30: the call_id that a pre-call run prints is null exactly when the insert of its
\* tool_calls row failed; otherwise it is the id of a row that the run added, with
\* status started and the event's tool_name.  A post-call run that is given the id of
\* a row, and whose UPDATE the store accepts, closes that row and no other.
C30_CallIdNamesRow ==
    [][/\ (lastOp'.op = "pretooluse" /\ EventRead(lastOp'))
          => /\ OutCallId(lastOp') = None <=> lastOp'.faults[3]
             /\ OutCallId(lastOp') # None
                => /\ OutCallId(lastOp') = PyInt(lastOp'.cid)
                   /\ CallRows(tool_calls, lastOp'.cid) = {}
                   /\ \E i \in DOMAIN tool_calls' :
                         /\ CallRows(tool_calls', lastOp'.cid) = {i}
                         /\ tool_calls'[i].status = "started"
                         /\ tool_calls'[i].tool_name
                               = EventField(lastOp', <<"tool_name">>, PyStr(<<"Unknown">>))
       /\ (/\ lastOp'.op = "posttooluse"
           /\ EventRead(lastOp')
           /\ ~lastOp'.faults[1]
           /\ \E n \in 1..MaxCalls :
                 EventField(lastOp', <<"call_id">>, None) = PyInt(n)
                 /\ CallRows(tool_calls, n) # {})
          => /\ DOMAIN tool_calls' = DOMAIN tool_calls
             /\ \A i \in DOMAIN tool_calls :
                   IF PyInt(tool_calls[i].id) = EventField(lastOp', <<"call_id">>, None)
                   THEN /\ tool_calls'[i].status = lastOp'.status
                        /\ tool_calls'[i].status \in {"completed", "failed"}
                        /\ tool_calls'[i].completed_at # NullInt
                        /\ tool_calls'[i].tool_name = tool_calls[i].tool_name
                   ELSE tool_calls'[i] = tool_calls[i]]_vars

\* the first of two rows that pre-call runs added was closed through its call_id
C30_FirstOfTwoClosed ==
    /\ lastOp.op = "posttooluse"
    /\ lastOp.cid = 1
    /\ Len(tool_calls) = 2
    /\ tool_calls[1].status \in {"completed", "failed"}
    /\ tool_calls[2].status = "started"

----------------------------------------------------------------------------
(* Concurrent tool calls: two processes in log_tool_call_start against one provisioned
   store, each for its own session.  A step is one statement of lib/logger.py; the
   INSERT takes the write lock of the store file and conn.commit() releases it. *)

TcSession(p) == IF p = "p1" THEN "S1" ELSE "S2"

TcProcInit == [pc |-> "session", txn |-> <<>>, ret |-> NullInt, held |-> <<>>]

TcInit ==
    /\ StoreInit
    /\ env = DefaultEnv
    /\ CodecUnused
    /\ db = [exists |-> TRUE, tables |-> {SchemaTables[i] : i \in DOMAIN SchemaTables},
             writer |-> "none", if_not_exists |-> TRUE]
    /\ procs = [p \in Procs |-> TcProcInit]

\* log_tool_call_start: log_session_start(session_id), its INSERT OR IGNORE committed
\* at once, or failed and swallowed by its except clause (fail)
TcEnsureSession(p, fail) ==
    /\ procs[p].pc = "session"
    /\ Len(tool_calls) + Cardinality({q \in Procs : procs[q].pc # "session"}) <= MaxCalls
    /\ fail \/ db.writer = "none"
    /\ sessions' = log_session_start(sessions, InitCtx, env, TcSession(p), NullStr, NullStr,
                                     None, "G1", fail).sessions
    /\ procs' = [procs EXCEPT ![p].pc = "insert"]
    /\ UNCHANGED <<db, tool_calls>>

\* the INSERT INTO tool_calls run without the write lock of the store file
TcInsertUnlocked(p) ==
    /\ procs[p].pc = "insert"
    /\ db' = [db EXCEPT !.writer = p]
    /\ LET params == compress_if_large(SmallPayload, DEFAULT_COMPRESSION_THRESHOLD)
           row == ToolCallRow(NextRowId(tool_calls), NullStr, TcSession(p), PyStr(<<"Bash">>),
                              params.data, params.is_compressed)
       IN procs' = [procs EXCEPT ![p].pc = "commit",
                                 ![p].txn = Append(tool_calls, row),
                                 ![p].ret = row.id]
    /\ UNCHANGED <<sessions, tool_calls>>

\* log_tool_call_start: cursor.execute(INSERT INTO tool_calls ...), which opens the
\* write transaction, and call_id = cursor.lastrowid
TcInsert(p) ==
    /\ procs[p].pc = "insert"
    /\ db.writer = "none"
    /\ db' = [db EXCEPT !.writer = p]
    /\ LET params == compress_if_large(SmallPayload, DEFAULT_COMPRESSION_THRESHOLD)
           row == ToolCallRow(NextRowId(tool_calls), NullStr, TcSession(p), PyStr(<<"Bash">>),
                              params.data, params.is_compressed)
       IN procs' = [procs EXCEPT ![p].pc = "commit",
                                 ![p].txn = Append(tool_calls, row),
                                 ![p].ret = row.id]
    /\ UNCHANGED <<sessions, tool_calls>>

\* log_tool_call_start: the INSERT gives up on the lock another connection holds
\* (database is locked); the except clause returns None
TcBusy(p) ==
    /\ procs[p].pc = "insert"
    /\ db.writer \notin {"none", p}
    /\ procs' = [procs EXCEPT ![p].pc = "session", ![p].ret = NullInt]
    /\ UNCHANGED <<db, sessions, tool_calls>>

\* log_tool_call_start: conn.commit(); conn.close(); return call_id
TcCommit(p) ==
    /\ procs[p].pc = "commit"
    /\ tool_calls' = procs[p].txn
    /\ db' = [db EXCEPT !.writer = "none"]
    /\ procs' = [procs EXCEPT ![p].pc = "session", ![p].txn = <<>>,
                              ![p].held = Append(@, procs[p].ret)]
    /\ UNCHANGED sessions

TcOthers == <<agents, modifications, state_snapshots, ctx, lastOp, env, given, resolved,
              cIn, cOut>>

TcNext ==
    \/ \E p \in Procs, fail \in BOOLEAN : TcEnsureSession(p, fail) /\ UNCHANGED TcOthers
    \/ \E p \in Procs : TcInsert(p) /\ UNCHANGED TcOthers
    \/ \E p \in Procs : TcBusy(p) /\ UNCHANGED TcOthers
    \/ \E p \in Procs : TcCommit(p) /\ UNCHANGED TcOthers

SpecToolCalls == TcInit /\ [][TcNext]_vars

\* the ids that log_tool_call_start has returned, by process and by call
Handles == UNION {{<<p, i>> : i \in DOMAIN procs[p].held} : p \in Procs}

\* C31: every log_tool_call_start that succeeded inserted one row and returned its
\* id: the ids returned so far, by either process, are pairwise distinct, each is the
\* id of exactly one row, and the table has one row for each of them.
C31_DistinctHandles ==
    /\ \A g, h \in Handles : g # h => procs[g[1]].held[g[2]] # procs[h[1]].held[h[2]]
    /\ \A h \in Handles : Cardinality(CallRows(tool_calls, procs[h[1]].held[h[2]])) = 1
    /\ Len(tool_calls) = Cardinality(Handles)

\* both processes hold a handle
C31_BothHold ==
    /\ \A p \in Procs : procs[p].held # <<>>
    /\ Len(tool_calls) = 2

\* C32: every row of tool_calls names a session that has a row in sessions, also
\* when the insert of log_session_start failed before it and when the other process
\* runs between the two statements.
C32_CallHasSession ==
    \A i \in DOMAIN tool_calls :
        \E j \in DOMAIN sessions : sessions[j].session_id = tool_calls[i].session_id

\* a tool call was committed for a session whose row is there
C32_CallBesideSession ==
    /\ tool_calls # <<>>
    /\ \E j \in DOMAIN sessions : sessions[j].session_id = tool_calls[1].session_id

\* the blob of the row is there and decompresses to text
BlobPopulated == Truthy(cIn.blob) /\ DecodableBlob

\* the blob of the row is absent, or decompresses to text
BlobSound == ~Truthy(cIn.blob) \/ DecodableBlob

----------------------------------------------------------------------------
(* Claims on the agent inferred from the task output files *)

RECURSIVE OutputFiles(_)
\* the output files of all task directories
OutputFiles(task_dirs) ==
    IF task_dirs = <<>> THEN <<>> ELSE Head(task_dirs).files \o OutputFiles(Tail(task_dirs))

\* C34: a get_current_agent() that finds no CLAUDE_AGENT_ID, an empty stack and no
\* cached id, while task output files exist, returns the stem of the most recently
\* modified output file of all task directories.
C34_NewestOutput ==
    [][(/\ lastOp'.op = "get_current_agent"
        /\ ~StrTruthy(env.CLAUDE_AGENT_ID)
        /\ ctx.agent_stack = <<>>
        /\ ~StrTruthy(ctx.agent_id)
        /\ OutputFiles(env.task_dirs) # <<>>)
       => lastOp'.aid = LatestFile(OutputFiles(env.task_dirs)).stem]_vars

\* the inference step ran over the single output file T1.output and returned T1
C34_Inferred ==
    /\ lastOp.op = "get_current_agent"
    /\ lastOp.aid = "T1"
    /\ ctx.agent_id = "T1"
    /\ ctx.agent_stack = <<>>
    /\ Len(OutputFiles(env.task_dirs)) = 1

----------------------------------------------------------------------------
(* Durations: the post-call hook on events that carry timestamps *)

\* epoch seconds an event can carry; None stands for a missing field
EventStamps == {None, PyInt(0), PyInt(1), PyInt(2)}

\* a post-call event of call 1 with its timestamps
TimedEvent(start_time, end_time) ==
    PyDict(PostEvent("Bash", SmallPayload, None, PyInt(1)).v
           \o <<[k |-> <<"start_timestamp">>, x |-> start_time],
                [k |-> <<"end_timestamp">>, x |-> end_time]>>)

DurationsNext ==
    \/ ALogToolCallStart(PyStr(<<"Bash">>), SmallPayload, NullStr, "S1", "G1", FALSE, FALSE)
       /\ UNCHANGED Others
    \/ \E start_time \in EventStamps, end_time \in EventStamps, fail1 \in BOOLEAN :
          PostToolUse(TimedEvent(start_time, end_time), 1, fail1, FALSE) /\ UNCHANGED Others

SpecDurations == CallsInit /\ [][DurationsNext]_vars

\* C35: a post-call run that closes a row sets its duration_ms to
\* (end_timestamp - start_timestamp) * 1000 whenever the event carries both
\* timestamps, the value 0 included, and leaves it null when one is missing.
C35_Duration ==
    [][(/\ lastOp'.op = "posttooluse"
        /\ EventRead(lastOp')
        /\ ~lastOp'.faults[1]
        /\ CallRows(tool_calls, lastOp'.cid) # {})
       => LET start_time == EventField(lastOp', <<"start_timestamp">>, None)
              end_time == EventField(lastOp', <<"end_timestamp">>, None)
          IN \A i \in CallRows(tool_calls', lastOp'.cid) :
                tool_calls'[i].duration_ms
                   = IF start_time # None /\ end_time # None
                     THEN (end_time.v - start_time.v) * 1000
                     ELSE NullInt]_vars

\* a call that ran from second 1 to second 2 was closed with 1000 ms
C35_OneSecond ==
    /\ lastOp.op = "posttooluse"
    /\ EventField(lastOp, <<"start_timestamp">>, None) = PyInt(1)
    /\ EventField(lastOp, <<"end_timestamp">>, None) = PyInt(2)
    /\ \E i \in DOMAIN tool_calls : tool_calls[i].id = 1 /\ tool_calls[i].duration_ms = 1000

----------------------------------------------------------------------------
(* Claims on the two size tests of the compressor *)

\* C36: for every payload P and threshold t, should_compress(P, t) is true exactly
\* when compress_if_large(P, t) answers is_compressed = TRUE.
C36_SizeTestsAgree ==
    cOut.op = "compress_if_large" =>
        (should_compress(cIn.data, cIn.threshold) <=> cOut.is_compressed)

\* both tests agreed to compress a text longer than the threshold
C36_TextAgreed ==
    /\ cOut.op = "compress_if_large"
    /\ cIn.data.t = "str"
    /\ cIn.threshold = 1
    /\ cOut.is_compressed
    /\ should_compress(cIn.data, cIn.threshold)

----------------------------------------------------------------------------
(* Push and pop: push_agent(a) with pop_agent() right behind it, in a process that
   also sets, pushes, pops and resolves agents *)

\* push_agent(agent_id); pop_agent(): the id pushed is kept as the event, the id
\* popped as the agent of the record
APushPop(agent_id) ==
    LET r == pop_agent(push_agent(ctx, agent_id))
    IN /\ ctx' = r.ctx
       /\ lastOp' = [TrackerOp("push_pop", NullStr, r.id) EXCEPT !.event = PyStr(<<agent_id>>)]
       /\ UNCHANGED <<storeVars, given, env, resolved>>

PushPopNext ==
    \/ \E a \in StackAgentIds : APushPop(a) /\ UNCHANGED TrackerOthers
    \/ \E a \in StackAgentIds : APushAgent(a) /\ UNCHANGED TrackerOthers
    \/ APopAgent /\ UNCHANGED TrackerOthers
    \/ \E a \in {"A1", "A3"} : ASetAgent(a) /\ UNCHANGED TrackerOthers
    \/ AGetCurrentAgent /\ UNCHANGED TrackerOthers
    \/ \E a \in EnvAgentIds : SetEnvAgentId(a) /\ UNCHANGED TrackerOthers
    \/ \E task_dirs \in TaskDirSets : WriteTaskOutputs(task_dirs) /\ UNCHANGED TrackerOthers

SpecPushPop == CallsInit /\ [][PushPopNext]_vars

\* C37: push_agent(a) with pop_agent() right behind it returns a and leaves the agent
\* stack, the cached agent id and the id that get_current_agent() returns as they
\* were before the push, also when an agent id had been cached before it.
C37_PushPopRestores ==
    [][lastOp'.op = "push_pop"
       => /\ lastOp'.event = PyStr(<<lastOp'.aid>>)
          /\ ctx'.agent_stack = ctx.agent_stack
          /\ ctx'.agent_id = ctx.agent_id
          /\ get_current_agent(ctx', env').id = get_current_agent(ctx, env).id]_vars

\* a push and pop over a stack of one agent left the resolver as it was
C37_RestoredOverStack ==
    /\ lastOp.op = "push_pop"
    /\ lastOp.aid = "A2"
    /\ lastOp.event = PyStr(<<"A2">>)
    /\ ctx.agent_stack = <<"A1">>
    /\ ctx.agent_id = "A1"

----------------------------------------------------------------------------
(* Claims on the status a post-call event leaves *)

\* C38: a post-call run that closes a row leaves it failed with an error_message when
\* its event carries an error, and completed with a null error_message when it
\* carries none; a modifications row is added only for an event without an error, and
\* its tool_call_id is the event's call_id, null when the event has none.
C38_StatusAndModification ==
    [][(lastOp'.op = "posttooluse" /\ EventRead(lastOp'))
       => LET error == EventField(lastOp', <<"error">>, None)
              call_id == EventField(lastOp', <<"call_id">>, None)
          IN /\ (Truthy(call_id) /\ ~lastOp'.faults[1])
                => \A i \in CallRows(tool_calls', IntOrNull(call_id)) :
                      IF Truthy(error)
                      THEN /\ tool_calls'[i].status = "failed"
                           /\ tool_calls'[i].error_message # None
                      ELSE /\ tool_calls'[i].status = "completed"
                           /\ tool_calls'[i].error_message = None
             /\ modifications' # modifications
                => /\ ~Truthy(error)
                   /\ OneRowAdded(modifications, modifications')
                   /\ modifications'[Len(modifications')].tool_call_id
                         = (IF call_id = None THEN NullInt ELSE call_id.v)]_vars

\* a Write event without call_id left a modification with a null tool_call_id, beside
\* a call that is still started
C38_ModificationWithoutCall ==
    /\ lastOp.op = "posttooluse"
    /\ EventField(lastOp, <<"call_id">>, None) = None
    /\ modifications # <<>>
    /\ modifications[Len(modifications)].tool_call_id = NullInt
    /\ \E i \in DOMAIN tool_calls : tool_calls[i].status = "started"

====
